---- MODULE Spec2Model ----
(***************************************************************************)
(* runstats: the GPX track parser (src/src/gpx_parser.rs), the data model  *)
(* (src/src/lib.rs) and the statistics engine (src/src/stats.rs).          *)
(*                                                                         *)
(* The parser is modelled as the loop of read_gpx_from: one action per     *)
(* XmlEvent pulled from the EventReader.  The three handlers               *)
(* parse_start_xml_element, parse_xml_characters and parse_end_xml_element *)
(* are operators from (event, track, context) to the new (track, context). *)
(***************************************************************************)
EXTENDS Integers, Sequences, FiniteSets, Bags, TLC

(***************************************************************************)
(* Bounds of the explored documents.                                       *)
(***************************************************************************)
\* most trkpt elements in one document of OrderDocs
MaxPoints == 2
\* deepest element nesting in one document
MaxDepth == 5
\* most attributes on one element
MaxAttrs == 2
\* most trkpt elements in one document of ShapeDocs, of TextDocs
MaxShapePoints == 1
MaxTextPoints == 1

(***************************************************************************)
(* Option values.  None is Option::None; Some(x) is the one-element        *)
(* sequence.                                                               *)
(***************************************************************************)
None == << >>
Some(x) == << x >>
IsNone(o) == o = << >>
Unwrap(o) == o[1]

(***************************************************************************)
(* enum GpxXmlTag                                                          *)
(***************************************************************************)
GpxXmlTag ==
    { "Gpx", "Metadata", "Track", "Name", "TrackSegment", "TrackPoint",
      "Elevation", "Time", "ExtHeartRate", "ExtCadence" }

TOPOGRAFIX_GPX_SCHEMA == "http://www.topografix.com/GPX/1/1"
GARMIN_TRACK_POINT_EXT_SCHEMA ==
    "http://www.garmin.com/xmlschemas/TrackPointExtension/v1"

TOPOGRAFIX_GPX_MAPPINGS ==
    << << "gpx", "Gpx" >>, << "metadata", "Metadata" >>, << "trk", "Track" >>,
       << "name", "Name" >>, << "trkseg", "TrackSegment" >>,
       << "trkpt", "TrackPoint" >>, << "ele", "Elevation" >>,
       << "time", "Time" >> >>

GARMIN_TRACK_POINT_EXT_MAPPINGS ==
    << << "hr", "ExtHeartRate" >>, << "cad", "ExtCadence" >> >>

\* mapping.iter().find(|(mapped_tag, _)| mapped_tag == tag)
find_tag_in_mapping(tag, mapping) ==
    LET hits == { i \in 1..Len(mapping) : mapping[i][1] = tag }
    IN  IF hits = {} THEN None
        ELSE Some(mapping[CHOOSE i \in hits : \A j \in hits : i <= j][2])

\* name is an OwnedName: namespace is an Option, local_name a string
parse_gpx_xml_tag(name) ==
    IF IsNone(name.namespace) THEN None
    ELSE IF Unwrap(name.namespace) = TOPOGRAFIX_GPX_SCHEMA
         THEN find_tag_in_mapping(name.local_name, TOPOGRAFIX_GPX_MAPPINGS)
    ELSE IF Unwrap(name.namespace) = GARMIN_TRACK_POINT_EXT_SCHEMA
         THEN find_tag_in_mapping(name.local_name, GARMIN_TRACK_POINT_EXT_MAPPINGS)
    ELSE None

(***************************************************************************)
(* Text decoding.  Strings are drawn from a small vocabulary; each decoder *)
(* accepts the strings the Rust decoder accepts and rejects the others.    *)
(***************************************************************************)
\* str::parse::<f64>
ParseF64(s) ==
    CASE s = "7"   -> Some(7)
      [] s = "300" -> Some(300)
      [] OTHER     -> None

\* a decoder of u8 that keeps the low eight bits of a larger integer
ParseU8Wrapping(s) ==
    CASE s = "7"   -> Some(7)
      [] s = "300" -> Some(300 % 256)
      [] OTHER     -> None

\* str::parse::<u8>: a decimal integer in 0..255
ParseU8(s) ==
    CASE s = "7"   -> Some(7)
      [] OTHER     -> None

\* DateTime::parse_from_rfc3339, converted to Utc: seconds on the model's
\* time line
ParseRfc3339(s) ==
    CASE s = "2020-04-22T16:01:58Z" -> Some(1)
      [] s = "2020-04-22T16:02:04Z" -> Some(2)
      [] OTHER                      -> None

\* the strings a document may carry as text or attribute value
Texts == { "7", "300", "2020-04-22T16:01:58Z", "2020-04-22T16:02:04Z", "abc" }

\* Utc::now(): the wall clock is read when a TrackPoint is constructed.  It
\* is not tied to the timestamps written in the document: a reading may lie
\* before or after all of them.
ClockReadings == { 0, 3 }

(***************************************************************************)
(* struct TrackPoint, struct Track (the parser pushes points onto          *)
(* track.route directly), struct ParserContext                             *)
(***************************************************************************)
\* TrackPoint::new(), with the clock reading it takes
TrackPoint_new(now) ==
    [ latitude |-> 0, longitude |-> 0, elevation |-> 0, time |-> now,
      heart_rate |-> 0, cadence |-> 0 ]

Track_new ==
    [ name |-> "", start_time |-> None, route |-> << >> ]

ParserContext_new(now) ==
    [ in_gpx |-> FALSE, in_metadata |-> FALSE, in_track |-> FALSE,
      in_track_segment |-> FALSE, in_track_point |-> FALSE,
      current_tag |-> None, current_track_point |-> TrackPoint_new(now),
      should_sort_track |-> FALSE ]

Ok(track, context) == [ ok |-> TRUE, track |-> track, context |-> context ]
Err(track, context) == [ ok |-> FALSE, track |-> track, context |-> context ]

(***************************************************************************)
(* parse_start_xml_element                                                 *)
(***************************************************************************)
\* an OwnedAttribute
Attr(local_name, value) == [ local_name |-> local_name, value |-> value ]

\* the attribute loop without the return at a value that does not parse
RECURSIVE AttrLoopLenient(_, _, _)
AttrLoopLenient(attributes, i, st) ==
    IF i > Len(attributes) THEN st
    ELSE LET attr == attributes[i]
         IN  AttrLoopLenient(attributes, i + 1,
               IF attr.local_name = "lat"
               THEN [st EXCEPT !.latitude_found = TRUE]
               ELSE IF attr.local_name = "lon"
               THEN [st EXCEPT !.longitude_found = TRUE]
               ELSE st)

\* the loop over the attributes of a trkpt element, from attribute i on;
\* st carries the in-progress point and the two found flags, and st.ok turns
\* FALSE at the first value that does not parse
RECURSIVE AttrLoop(_, _, _)
AttrLoop(attributes, i, st) ==
    IF i > Len(attributes) THEN st
    ELSE LET attr == attributes[i]
             parsed == ParseF64(attr.value)
         IN  IF attr.local_name = "lat"
             THEN IF IsNone(parsed)
                  THEN [st EXCEPT !.ok = FALSE, !.latitude_found = TRUE]
                  ELSE AttrLoop(attributes, i + 1,
                         [st EXCEPT !.latitude_found = TRUE,
                                    !.point.latitude = Unwrap(parsed)])
             ELSE IF attr.local_name = "lon"
             THEN IF IsNone(parsed)
                  THEN [st EXCEPT !.ok = FALSE, !.longitude_found = TRUE]
                  ELSE AttrLoop(attributes, i + 1,
                         [st EXCEPT !.longitude_found = TRUE,
                                    !.point.longitude = Unwrap(parsed)])
             ELSE AttrLoop(attributes, i + 1, st)

\* the containment test of a name element without the in_track test
NameAllowedInGpx(context) ==
    ~ ( ~context.in_gpx )

\* the containment test of a name element (gpx_parser.rs 132-134)
NameAllowed(context) ==
    ~ ( ~context.in_gpx
        \/ ~context.in_track )

\* the containment test of a trkpt element without the in_track_segment test
TrackPointAllowedInTrack(attributes, context) ==
    ~ ( ~context.in_gpx
        \/ ~context.in_track
        \/ Len(attributes) < 2 )

\* the containment test of a trkpt element (gpx_parser.rs 139-142)
TrackPointAllowed(attributes, context) ==
    ~ ( ~context.in_gpx
        \/ ~context.in_track
        \/ ~context.in_track_segment
        \/ Len(attributes) < 2 )

\* the containment test of ele, hr and cad (gpx_parser.rs 174-177, 183-186,
\* 192-195)
PointChildAllowed(context) ==
    ~ ( ~context.in_gpx
        \/ ~context.in_track
        \/ ~context.in_track_segment
        \/ ~context.in_track_point )

\* a trkpt element goes on with the point of the element before it
parse_start_xml_element_keeps_point(tag, attributes, track, context, now) ==
    LET c0 == [context EXCEPT !.current_tag = Some(tag)]
    IN  CASE tag = "Gpx" -> Ok(track, [c0 EXCEPT !.in_gpx = TRUE])
          [] tag = "Metadata" ->
                IF ~c0.in_gpx THEN Err(track, c0)
                ELSE Ok(track, [c0 EXCEPT !.in_metadata = TRUE])
          [] tag = "Time" ->
                IF ~c0.in_gpx THEN Err(track, c0) ELSE Ok(track, c0)
          [] tag = "Track" -> Ok(track, [c0 EXCEPT !.in_track = TRUE])
          [] tag = "Name" ->
                IF ~NameAllowed(c0) THEN Err(track, c0)
                ELSE Ok(track, c0)
          [] tag = "TrackSegment" ->
                Ok(track, [c0 EXCEPT !.in_track_segment = TRUE])
          [] tag = "TrackPoint" ->
                IF ~TrackPointAllowed(attributes, c0) THEN Err(track, c0)
                ELSE LET st == AttrLoop(attributes, 1,
                                 [ ok |-> TRUE,
                                   point |-> c0.current_track_point,
                                   latitude_found |-> FALSE,
                                   longitude_found |-> FALSE ])
                         c1 == [c0 EXCEPT !.in_track_point = TRUE,
                                          !.current_track_point = st.point]
                     IN  IF ~st.ok THEN Err(track, c1)
                         ELSE IF ~st.latitude_found \/ ~st.longitude_found
                              THEN Err(track, c1)
                         ELSE Ok(track, c1)
          [] tag \in { "Elevation", "ExtHeartRate", "ExtCadence" } ->
                IF ~PointChildAllowed(c0) THEN Err(track, c0)
                ELSE Ok(track, c0)

\* the result is Ok or Err with the context as the function leaves it; the
\* track is not touched.  now is the clock reading of TrackPoint::new().
parse_start_xml_element(tag, attributes, track, context, now) ==
    LET c0 == [context EXCEPT !.current_tag = Some(tag)]
    IN  CASE tag = "Gpx" -> Ok(track, [c0 EXCEPT !.in_gpx = TRUE])
          [] tag = "Metadata" ->
                IF ~c0.in_gpx THEN Err(track, c0)
                ELSE Ok(track, [c0 EXCEPT !.in_metadata = TRUE])
          [] tag = "Time" ->
                IF ~c0.in_gpx THEN Err(track, c0) ELSE Ok(track, c0)
          [] tag = "Track" -> Ok(track, [c0 EXCEPT !.in_track = TRUE])
          [] tag = "Name" ->
                IF ~NameAllowed(c0) THEN Err(track, c0)
                ELSE Ok(track, c0)
          [] tag = "TrackSegment" ->
                Ok(track, [c0 EXCEPT !.in_track_segment = TRUE])
          [] tag = "TrackPoint" ->
                IF ~TrackPointAllowed(attributes, c0) THEN Err(track, c0)
                ELSE LET st == AttrLoop(attributes, 1,
                                 [ ok |-> TRUE,
                                   point |-> TrackPoint_new(now),
                                   latitude_found |-> FALSE,
                                   longitude_found |-> FALSE ])
                         c1 == [c0 EXCEPT !.in_track_point = TRUE,
                                          !.current_track_point = st.point]
                     IN  IF ~st.ok THEN Err(track, c1)
                         ELSE IF ~st.latitude_found \/ ~st.longitude_found
                              THEN Err(track, c1)
                         ELSE Ok(track, c1)
          [] tag \in { "Elevation", "ExtHeartRate", "ExtCadence" } ->
                IF ~PointChildAllowed(c0) THEN Err(track, c0)
                ELSE Ok(track, c0)

(***************************************************************************)
(* parse_xml_characters                                                    *)
(***************************************************************************)
\* no out-of-order check
OutOfOrderCheckNever(track, context) == context

\* the out-of-order check made when a point's time is assigned
\* (gpx_parser.rs 228-235): compare with the last point of track.route
OutOfOrderCheck(track, context) ==
    IF Len(track.route) > 0 /\ ~context.should_sort_track
    THEN LET latest_point == track.route[Len(track.route)]
         IN  IF latest_point.time > context.current_track_point.time
             THEN [context EXCEPT !.should_sort_track = TRUE]
             ELSE context
    ELSE context

parse_xml_characters(characters, track, context) ==
    IF IsNone(context.current_tag) THEN Ok(track, context)
    ELSE LET tag == Unwrap(context.current_tag)
         IN  CASE tag = "Time" ->
                    LET start_time == ParseRfc3339(characters)
                    IN  IF IsNone(start_time) THEN Err(track, context)
                        ELSE IF context.in_metadata
                        THEN Ok([track EXCEPT !.start_time = start_time],
                                context)
                        ELSE IF context.in_track_point
                        THEN Ok(track,
                                OutOfOrderCheck(track,
                                  [context EXCEPT
                                     !.current_track_point.time =
                                         Unwrap(start_time)]))
                        ELSE Ok(track, context)
               [] tag = "Name" ->
                    Ok([track EXCEPT !.name = characters], context)
               [] tag = "Elevation" ->
                    LET parsed == ParseF64(characters)
                    IN  IF IsNone(parsed) THEN Err(track, context)
                        ELSE Ok(track, [context EXCEPT
                               !.current_track_point.elevation = Unwrap(parsed)])
               [] tag = "ExtHeartRate" ->
                    LET parsed == ParseU8(characters)
                    IN  IF IsNone(parsed) THEN Err(track, context)
                        ELSE Ok(track, [context EXCEPT
                               !.current_track_point.heart_rate = Unwrap(parsed)])
               [] tag = "ExtCadence" ->
                    LET parsed == ParseU8(characters)
                    IN  IF IsNone(parsed) THEN Err(track, context)
                        ELSE Ok(track, [context EXCEPT
                               !.current_track_point.cadence = Unwrap(parsed)])
               [] OTHER -> Ok(track, context)

(***************************************************************************)
(* parse_end_xml_element                                                   *)
(***************************************************************************)
parse_end_xml_element(tag, track, context) ==
    LET c0 == [context EXCEPT !.current_tag = None]
    IN  CASE tag = "Gpx" -> Ok(track, [c0 EXCEPT !.in_gpx = FALSE])
          [] tag = "Metadata" -> Ok(track, [c0 EXCEPT !.in_metadata = FALSE])
          [] tag = "Track" -> Ok(track, [c0 EXCEPT !.in_track = FALSE])
          [] tag = "TrackSegment" ->
                Ok(track, [c0 EXCEPT !.in_track_segment = FALSE])
          [] tag = "TrackPoint" ->
                Ok([track EXCEPT
                      !.route = Append(@, c0.current_track_point)], c0)
          [] OTHER -> Ok(track, c0)

(***************************************************************************)
(* track.route.sort_by(|a, b| a.time.cmp(&b.time)): a stable sort          *)
(***************************************************************************)
\* p inserted after every element of the sorted sequence s whose time is not
\* later than p's
RECURSIVE InsertByTime(_, _)
InsertByTime(s, p) ==
    IF s = << >> THEN << p >>
    ELSE IF s[Len(s)].time <= p.time THEN Append(s, p)
    ELSE Append(InsertByTime(SubSeq(s, 1, Len(s) - 1), p), s[Len(s)])

RECURSIVE SortByTime(_)
SortByTime(s) ==
    IF s = << >> THEN << >>
    ELSE InsertByTime(SortByTime(SubSeq(s, 1, Len(s) - 1)), s[Len(s)])

\* gpx_parser.rs 314-316
FinalSort(track, context) ==
    IF context.should_sort_track
    THEN [track EXCEPT !.route = SortByTime(@)]
    ELSE track

(***************************************************************************)
(* The documents.  The EventReader yields the events of a well-formed      *)
(* document: one root element, every EndElement closing the innermost open *)
(* element, text only inside an element; anything else is a reader error.  *)
(***************************************************************************)
OwnedName(namespace, local_name) ==
    [ namespace |-> namespace, local_name |-> local_name ]

\* the element name of the GPX vocabulary that resolves to tag
NameOf(tag) ==
    CHOOSE name \in
        { OwnedName(Some(TOPOGRAFIX_GPX_SCHEMA), TOPOGRAFIX_GPX_MAPPINGS[i][1]) :
            i \in 1..Len(TOPOGRAFIX_GPX_MAPPINGS) }
        \cup
        { OwnedName(Some(GARMIN_TRACK_POINT_EXT_SCHEMA),
                    GARMIN_TRACK_POINT_EXT_MAPPINGS[i][1]) :
            i \in 1..Len(GARMIN_TRACK_POINT_EXT_MAPPINGS) } :
        parse_gpx_xml_tag(name) = Some(tag)

RecognizedNames == { NameOf(tag) : tag \in GpxXmlTag }

\* <type> of the GPX schema has no mapping; <time> of another schema and
\* <gpx> without a namespace are in no recognized namespace
UnrecognizedNames ==
    { OwnedName(Some(TOPOGRAFIX_GPX_SCHEMA), "type"),
      OwnedName(Some("http://www.garmin.com/xmlschemas/GpxExtensions/v3"), "time"),
      OwnedName(None, "gpx") }


RECURSIVE SeqsUpTo(_, _)
SeqsUpTo(S, n) ==
    IF n = 0 THEN { << >> }
    ELSE LET shorter == SeqsUpTo(S, n - 1)
         IN  shorter \cup { Append(q, x) : q \in shorter, x \in S }

\* every attribute list of at most MaxAttrs attributes; the reader fails on
\* an element that has two attributes of one name
AttrLists(names, values) ==
    { attributes \in SeqsUpTo({ Attr(n, v) : n \in names, v \in values },
                              MaxAttrs) :
        \A i, j \in 1..Len(attributes) :
            attributes[i].local_name = attributes[j].local_name => i = j }

\* a trkpt element as the GPX schema wants it
LatLon(lat, lon) == << Attr("lat", lat), Attr("lon", lon) >>

\* The containments of a GPX document.
GpxContain(parent) ==
    CASE parent = None                 -> { "Gpx" }
      [] parent = Some("Gpx")          -> { "Metadata", "Track" }
      [] parent = Some("Metadata")     -> { "Time" }
      [] parent = Some("Track")        -> { "Name", "TrackSegment" }
      [] parent = Some("TrackSegment") -> { "TrackPoint" }
      [] parent = Some("TrackPoint")   ->
            { "Elevation", "Time", "ExtHeartRate", "ExtCadence" }
      [] OTHER                         -> { }

\* The containments of a GPX document and the misplacements the containment
\* rules of the parser are about.
MisplacedContain(parent) ==
    CASE parent = None ->
            GpxXmlTag
      [] parent = Some("Gpx") ->
            GpxXmlTag \ { "Gpx" }
      [] parent = Some("Metadata") ->
            { "Time", "Name" }
      [] parent = Some("Track") ->
            { "Name", "TrackSegment", "TrackPoint", "Track", "Time" }
      [] parent = Some("TrackSegment") ->
            { "TrackPoint", "TrackSegment", "Elevation", "Time",
              "ExtHeartRate", "ExtCadence", "Name" }
      [] parent = Some("TrackPoint") ->
            { "Elevation", "Time", "ExtHeartRate", "ExtCadence",
              "TrackPoint", "Metadata" }
      [] OTHER -> { }

Parents == { None } \cup { Some(tag) : tag \in GpxXmlTag }

(***************************************************************************)
(* A family of documents: the element names, the attribute lists of trkpt  *)
(* elements, the texts, the tags each element may contain (an element with *)
(* an unrecognized name may stand in any element with a recognized name    *)
(* and contain what that element may contain), the number of trkpt         *)
(* elements, and what the second parse is: "same", the same parse again;   *)
(* "clock", a parse of the same document with clock readings of its own;   *)
(* "plain", a parse of the document without its elements of unrecognized   *)
(* name and their text.                                                    *)
(***************************************************************************)
\* every name anywhere the containment rules are about; no numeric text
ShapeDocs ==
    [ names   |-> RecognizedNames,
      attrs   |-> AttrLists({ "lat", "lon", "creator" }, { "7", "abc" }),
      texts   |-> { "abc" },
      contain |-> [ parent \in Parents |-> MisplacedContain(parent) ],
      points  |-> MaxShapePoints,
      twin    |-> "same" ]

\* GPX documents with elements of other vocabularies anywhere and every text
TextDocs ==
    [ names   |-> RecognizedNames \cup UnrecognizedNames,
      attrs   |-> { LatLon("7", "300") },
      texts   |-> { "7", "2020-04-22T16:01:58Z", "abc" },
      contain |-> [ parent \in Parents |-> GpxContain(parent) ],
      points  |-> MaxTextPoints,
      twin    |-> "same" ]

\* GPX documents of points and their times
OrderDocs ==
    [ names   |-> { NameOf(tag) : tag \in { "Gpx", "Track", "TrackSegment",
                                            "TrackPoint", "Time" } },
      attrs   |-> { LatLon("7", "300"), LatLon("300", "7") },
      texts   |-> { "2020-04-22T16:01:58Z", "2020-04-22T16:02:04Z" },
      contain |-> [ parent \in Parents |-> GpxContain(parent) ],
      points  |-> MaxPoints,
      twin    |-> "same" ]

\* the same documents, each parsed twice
TwiceDocs == [ OrderDocs EXCEPT !.twin = "clock" ]

\* GPX documents with elements of other vocabularies, each parsed with and
\* without them
PlainDocs ==
    [ names   |-> { NameOf(tag) : tag \in { "Gpx", "Metadata", "Track", "Name",
                                            "TrackSegment", "TrackPoint",
                                            "Time" } }
                  \cup { OwnedName(Some(TOPOGRAFIX_GPX_SCHEMA), "type"),
                         OwnedName(None, "gpx") },
      attrs   |-> { LatLon("7", "300") },
      texts   |-> { "2020-04-22T16:01:58Z", "abc" },
      contain |-> [ parent \in Parents |-> GpxContain(parent) ],
      points  |-> MaxTextPoints,
      twin    |-> "plain" ]

\* The containments of a GPX document, and a time element in any element
\* that is not one.
TimeContain(parent) ==
    CASE parent = None                 -> { "Gpx" }
      [] parent = Some("Gpx")          -> { "Metadata", "Track", "Time" }
      [] parent = Some("Metadata")     -> { "Time" }
      [] parent = Some("Track")        -> { "TrackSegment", "Time" }
      [] parent = Some("TrackSegment") -> { "TrackPoint", "Time" }
      [] parent = Some("TrackPoint")   -> { "Time" }
      [] OTHER                         -> { }

\* documents with time elements in the metadata, in the points and elsewhere
TimeDocs ==
    [ names   |-> { NameOf(tag) : tag \in { "Gpx", "Metadata", "Track",
                                            "TrackSegment", "TrackPoint",
                                            "Time" } },
      attrs   |-> { LatLon("7", "300") },
      texts   |-> { "2020-04-22T16:01:58Z", "2020-04-22T16:02:04Z" },
      contain |-> [ parent \in Parents |-> TimeContain(parent) ],
      points  |-> MaxTextPoints,
      twin    |-> "same" ]

\* The containments of the points of a GPX document, and a trkpt element in
\* a trkpt element.
PointContain(parent) ==
    CASE parent = None                 -> { "Gpx" }
      [] parent = Some("Gpx")          -> { "Track" }
      [] parent = Some("Track")        -> { "TrackSegment" }
      [] parent = Some("TrackSegment") -> { "TrackPoint" }
      [] parent = Some("TrackPoint")   ->
            { "Elevation", "ExtHeartRate", "TrackPoint" }
      [] OTHER                         -> { }

\* documents of points at two places, with and without ele and hr elements
PointDocs ==
    [ names   |-> { NameOf(tag) : tag \in { "Gpx", "Track", "TrackSegment",
                                            "TrackPoint", "Elevation",
                                            "ExtHeartRate" } },
      attrs   |-> { LatLon("7", "300"), LatLon("300", "7") },
      texts   |-> { "7" },
      contain |-> [ parent \in Parents |-> PointContain(parent) ],
      points  |-> MaxPoints,
      twin    |-> "same" ]

\* GPX documents of one kind of text in every element that has text: a
\* decimal number in 0..255, one above 255, a timestamp, and other text
DecodeDocs ==
    [ names   |-> { NameOf(tag) : tag \in { "Gpx", "Metadata", "Track",
                                            "TrackSegment", "TrackPoint",
                                            "Elevation", "Time",
                                            "ExtHeartRate", "ExtCadence" } },
      attrs   |-> { LatLon("7", "300") },
      texts   |-> { "7", "300", "2020-04-22T16:01:58Z", "abc" },
      contain |-> [ parent \in Parents |-> GpxContain(parent) ],
      points  |-> MaxTextPoints,
      twin    |-> "same" ]

\* the innermost open element with a recognized name
RECURSIVE Enclosing(_)
Enclosing(st) ==
    IF st = << >> THEN None
    ELSE IF IsNone(parse_gpx_xml_tag(st[Len(st)]))
         THEN Enclosing(SubSeq(st, 1, Len(st) - 1))
    ELSE parse_gpx_xml_tag(st[Len(st)])

InShape(F, st, name) ==
    LET tag == parse_gpx_xml_tag(name)
    IN  IF IsNone(tag)
        THEN IF st = << >> THEN TRUE
             ELSE ~IsNone(parse_gpx_xml_tag(st[Len(st)]))
        ELSE Unwrap(tag) \in F.contain[Enclosing(st)]

\* the attributes matter to a trkpt element only
AttrListsOf(F, name) ==
    IF parse_gpx_xml_tag(name) = Some("TrackPoint") THEN F.attrs
    ELSE { << >> }

(***************************************************************************)
(* One turn of the loop of read_gpx_from on a run whose loop is running:   *)
(* the match on the event e.                                               *)
(***************************************************************************)
StartEvent(name, attributes) ==
    [ kind |-> "StartElement", name |-> name, attributes |-> attributes ]
EndEvent(name) == [ kind |-> "EndElement", name |-> name ]
CharactersEvent(characters) ==
    [ kind |-> "Characters", characters |-> characters ]
ErrEvent == [ kind |-> "Err" ]

\* a run: the locals of read_gpx_from and what it has returned: "none" while
\* the loop runs, then "Ok" (track is returned) or "Err"
\* (ParseError::XmlError is returned)
Run(result, track, context) ==
    [ result |-> result, track |-> track, context |-> context ]

Returned(r) ==
    IF r.ok THEN Run("none", r.track, r.context)
    ELSE Run("Err", r.track, r.context)

\* now is the clock reading taken if the event constructs a TrackPoint
LoopBody(e, run, now) ==
    CASE e.kind = "StartElement" ->
            LET tag == parse_gpx_xml_tag(e.name)
            IN  IF IsNone(tag) THEN run
                ELSE Returned(parse_start_xml_element(Unwrap(tag),
                                 e.attributes, run.track, run.context, now))
      [] e.kind = "EndElement" ->
            LET tag == parse_gpx_xml_tag(e.name)
            IN  IF IsNone(tag) THEN run
                ELSE Returned(parse_end_xml_element(Unwrap(tag), run.track,
                                                    run.context))
      [] e.kind = "Characters" ->
            Returned(parse_xml_characters(e.characters, run.track,
                                          run.context))
      [] e.kind = "Err" ->
            Run("Err", run.track, run.context)

\* the code after the loop: the final sort, then Ok(track)
AfterLoop(run) ==
    Run("Ok", FinalSort(run.track, run.context), run.context)

\* a loop that a failed handler does not leave
LoopRunningAfterErr(run) == run.result # "Ok"

\* the for loop is running: every return statement of its body leaves it
LoopRunning(run) == run.result = "none"

(***************************************************************************)
(* State.                                                                  *)
(***************************************************************************)
VARIABLES
    parse,       \* the parse of the document: a run
    twin,        \* a second parse of the same document
    stack,       \* the reader: names of the open elements, innermost last
    root_done,   \* the reader: the root element has been closed
    appended,    \* history: the points in the order parse pushed them, each
                 \* with first = it is the first point pushed since a trkseg
                 \* element was opened
    fresh_seg,   \* history: a trkseg was opened and no point pushed since
    input,       \* the Track given to the operations of stats.rs
    output       \* the operation made on input and what it returned, if any

vars == << parse, twin, stack, root_done, appended, fresh_seg, input, output >>

\* the variables of the parser and those of the statistics
parser == << parse, twin, stack, root_done, appended, fresh_seg >>
stats == << input, output >>

\* the clock readings of the second parse
TwinClock(F, now) == IF F.twin = "clock" THEN ClockReadings ELSE { now }

\* the innermost open element has an unrecognized name
InUnrecognized(st) ==
    IF st = << >> THEN FALSE ELSE IsNone(parse_gpx_xml_tag(st[Len(st)]))

\* the event e is not part of the document the second parse reads
Skipped(F, e, st) ==
    IF F.twin # "plain" THEN FALSE
    ELSE CASE e.kind = "StartElement" -> IsNone(parse_gpx_xml_tag(e.name))
           [] e.kind = "EndElement"   -> IsNone(parse_gpx_xml_tag(e.name))
           [] e.kind = "Characters"   -> InUnrecognized(st)
           [] OTHER                   -> FALSE

Init(F) ==
    /\ \E now \in ClockReadings :
          /\ parse = Run("none", Track_new, ParserContext_new(now))
          /\ \E now2 \in TwinClock(F, now) :
                twin = Run("none", Track_new, ParserContext_new(now2))
    /\ stack = << >>
    /\ root_done = FALSE
    /\ appended = << >>
    /\ fresh_seg = FALSE
    /\ input = Track_new
    /\ output = None

OpenPoints ==
    Cardinality({ i \in 1..Len(stack) :
                    parse_gpx_xml_tag(stack[i]) = Some("TrackPoint") })

\* the points of the document read so far
PointsRead ==
    IF Len(parse.track.route) >= Len(twin.track.route)
    THEN Len(parse.track.route) ELSE Len(twin.track.route)

\* the reader is read while a parse is running
Reading == IF LoopRunning(parse) THEN TRUE ELSE LoopRunning(twin)

\* each parse whose loop is running takes the event e
Take(F, e, now) ==
    /\ parse' = IF LoopRunning(parse) THEN LoopBody(e, parse, now) ELSE parse
    /\ \E now2 \in TwinClock(F, now) :
          twin' = IF LoopRunning(twin) /\ ~Skipped(F, e, stack)
                  THEN LoopBody(e, twin, now2) ELSE twin

\* Ok(XmlEvent::StartElement { name, attributes, .. })
StartElement(F, name, attributes, now) ==
    /\ Reading
    /\ stack = << >> => ~root_done
    /\ Len(stack) < MaxDepth
    /\ InShape(F, stack, name)
    /\ parse_gpx_xml_tag(name) = Some("TrackPoint")
          => PointsRead + OpenPoints < F.points
    /\ Take(F, StartEvent(name, attributes), now)
    /\ stack' = Append(stack, name)
    /\ fresh_seg' = IF LoopRunning(parse')
                       /\ parse_gpx_xml_tag(name) = Some("TrackSegment")
                    THEN TRUE ELSE fresh_seg
    /\ UNCHANGED << root_done, appended, stats >>

\* Ok(XmlEvent::EndElement { name, .. }): name is the innermost open element
EndElement(F) ==
    /\ Reading
    /\ stack # << >>
    /\ LET name == stack[Len(stack)]
       IN  /\ Take(F, EndEvent(name), 0)
           /\ IF LoopRunning(parse)
                 /\ parse_gpx_xml_tag(name) = Some("TrackPoint")
              THEN /\ appended' = Append(appended,
                          [ point |-> parse.context.current_track_point,
                            first |-> fresh_seg ])
                   /\ fresh_seg' = FALSE
              ELSE UNCHANGED << appended, fresh_seg >>
    /\ stack' = SubSeq(stack, 1, Len(stack) - 1)
    /\ root_done' = (Len(stack) = 1)
    /\ UNCHANGED stats

\* Ok(XmlEvent::Characters(characters))
Characters(F, characters) ==
    /\ Reading
    /\ stack # << >>
    /\ Take(F, CharactersEvent(characters), 0)
    /\ UNCHANGED << stack, root_done, appended, fresh_seg, stats >>

\* Err(e): the reader reports malformed input or a read that failed
ReaderError(F) ==
    /\ Reading
    /\ Take(F, ErrEvent, 0)
    /\ UNCHANGED << stack, root_done, appended, fresh_seg, stats >>

\* the reader is exhausted
Finish ==
    /\ Reading
    /\ stack = << >>
    /\ root_done
    /\ parse' = IF LoopRunning(parse) THEN AfterLoop(parse) ELSE parse
    /\ twin' = IF LoopRunning(twin) THEN AfterLoop(twin) ELSE twin
    /\ UNCHANGED << stack, root_done, appended, fresh_seg, stats >>

Read(F) ==
    \/ \E name \in F.names : \E attributes \in AttrListsOf(F, name) :
          \E now \in ClockReadings : StartElement(F, name, attributes, now)
    \/ EndElement(F)
    \/ \E characters \in F.texts : Characters(F, characters)
    \/ ReaderError(F)
    \/ Finish

Next == Read(ShapeDocs)
Spec == Init(ShapeDocs) /\ [][Next]_vars

\* the reader hands over a well-formed document to its end: no Err(e) event
NextDecode ==
    \/ \E name \in DecodeDocs.names :
          \E attributes \in AttrListsOf(DecodeDocs, name) :
             \E now \in ClockReadings :
                StartElement(DecodeDocs, name, attributes, now)
    \/ EndElement(DecodeDocs)
    \/ \E characters \in DecodeDocs.texts : Characters(DecodeDocs, characters)
    \/ Finish
SpecDecode == Init(DecodeDocs) /\ [][NextDecode]_vars

\* read_gpx before File::open(path): nothing is constructed yet
InitFile ==
    /\ parse = Run("unopened", Track_new, ParserContext_new(0))
    /\ twin = parse
    /\ stack = << >>
    /\ root_done = FALSE
    /\ appended = << >>
    /\ fresh_seg = FALSE
    /\ input = Track_new
    /\ output = None

\* File::open(path) returns Ok(file): unwrap() gives the file and
\* read_gpx_from starts on it
FileOpen(F) ==
    /\ parse.result = "unopened"
    /\ \E now \in ClockReadings :
          /\ parse' = Run("none", Track_new, ParserContext_new(now))
          /\ \E now2 \in TwinClock(F, now) :
                twin' = Run("none", Track_new, ParserContext_new(now2))
    /\ UNCHANGED << stack, root_done, appended, fresh_seg, stats >>

\* File::open(path) returns Err(e): unwrap() panics and read_gpx returns
\* nothing
FileOpenFails ==
    /\ parse.result = "unopened"
    /\ parse' = Run("Panic", parse.track, parse.context)
    /\ twin' = parse'
    /\ UNCHANGED << stack, root_done, appended, fresh_seg, stats >>

NextFile == FileOpen(ShapeDocs) \/ FileOpenFails \/ Read(ShapeDocs)
SpecFile == InitFile /\ [][NextFile]_vars

NextText == Read(TextDocs)
SpecText == Init(TextDocs) /\ [][NextText]_vars

NextOrder == Read(OrderDocs)
SpecOrder == Init(OrderDocs) /\ [][NextOrder]_vars

NextTwice == Read(TwiceDocs)
SpecTwice == Init(TwiceDocs) /\ [][NextTwice]_vars

NextPlain == Read(PlainDocs)
SpecPlain == Init(PlainDocs) /\ [][NextPlain]_vars

NextPoint == Read(PointDocs)
SpecPoint == Init(PointDocs) /\ [][NextPoint]_vars

NextTime == Read(TimeDocs)
SpecTime == Init(TimeDocs) /\ [][NextTime]_vars

(***************************************************************************)
(* stats.rs.  A Track here is a sequence of segments, each a sequence of   *)
(* points, as lib.rs declares it.  The points of the tracks below lie on   *)
(* the equator; a longitude is counted in the angle that spans one part   *)
(* of a metre of the equator, a time in seconds.  An operation returns     *)
(* Done(value) or panics.                                                  *)
(***************************************************************************)
Done(value) == [ value |-> value, panicked |-> FALSE ]
Panic == [ panicked |-> TRUE ]

Abs(x) == IF x < 0 THEN -x ELSE x

\* the points of all segments, in order
RECURSIVE AllPoints(_)
AllPoints(route) ==
    IF route = << >> THEN << >>
    ELSE route[1].points \o AllPoints(Tail(route))

\* f64 lengths (arcs of the equator, elevations, distances) are counted in
\* parts of a metre, Metre parts to the metre
Metre == 2

\* the whole metres of a length: a cast of f64 to an integer type drops the
\* fraction
Trunc(f) == IF f >= 0 THEN f \div Metre ELSE -((-f) \div Metre)

\* f as u64, f as u16, f as i32
AsU64(f) == IF f < 0 THEN 0 ELSE Trunc(f)
AsU16(f) == IF f < 0 THEN 0 ELSE IF Trunc(f) > 65535 THEN 65535 ELSE Trunc(f)
AsI32(f) == Trunc(f)

\* a quarter of the equator, in metres (EARTH_RADIUS * PI / 2, rounded)
QuarterEquator == 10007557

\* the great-circle distance of two points of the equator: a = |sin d| and
\* b = cos d for the difference d of the longitudes, and atan(a / b), which
\* lies between a quarter turn back and a quarter turn forth, is d in the
\* first quarter of the turn, d minus half a turn in the second, half a turn
\* minus d in the third and a turn minus d in the fourth
distance(lat1, long1, lat2, long2) ==
    LET quarter == QuarterEquator * Metre
        d == Abs(long2 - long1) % (4 * quarter)
    IN  IF d <= quarter THEN d
        ELSE IF d <= 2 * quarter THEN d - 2 * quarter
        ELSE IF d < 3 * quarter THEN 2 * quarter - d
        ELSE 4 * quarter - d

\* the square root of c1^2 + c2^2, for the values whose root is whole
Hypot(c1, c2) ==
    IF c2 = 0 THEN Abs(c1)
    ELSE IF c1 = 0 THEN Abs(c2)
    ELSE CHOOSE h \in 0..(Abs(c1) + Abs(c2)) : h * h = c1 * c1 + c2 * c2

distance_with_elevation(point1, point2) ==
    LET cathet1 == distance(point1.latitude, point1.longitude,
                            point2.latitude, point2.longitude)
        cathet2 == Abs(point2.elevation - point1.elevation)
    IN  Hypot(cathet1, cathet2)

RECURSIVE calc_track_distance_segment_from(_, _, _)
calc_track_distance_segment_from(points, point_idx, total_distance) ==
    IF point_idx + 1 > Len(points) THEN total_distance
    ELSE LET next_idx == point_idx + 1
         IN  IF next_idx >= Len(points) + 1 THEN total_distance
             ELSE calc_track_distance_segment_from(points, next_idx,
                     total_distance
                       + distance_with_elevation(points[point_idx],
                                                 points[next_idx]))

\* point_idx counts from 1 here
calc_track_distance_segment(points) ==
    calc_track_distance_segment_from(points, 1, 0)

RECURSIVE SumDistance(_, _)
SumDistance(route, k) ==
    IF k > Len(route) THEN 0
    ELSE calc_track_distance_segment(route[k].points) + SumDistance(route, k + 1)

\* the distance of the route taken as one segment
calc_track_distance_flat(track) ==
    LET dist == calc_track_distance_segment(AllPoints(track.route))
    IN  Done(IF dist > 0 THEN AsU64(dist) ELSE 0)

calc_track_distance(track) ==
    LET dist == SumDistance(track.route, 1)
    IN  Done(IF dist > 0 THEN AsU64(dist) ELSE 0)

\* the time between two points whichever is the later
duration_between_points_unsigned(point1, point2) ==
    Done(Abs(point2.time - point1.time))

\* signed_duration_since, then to_std().unwrap(): a negative duration panics
duration_between_points(point1, point2) ==
    IF point2.time - point1.time < 0 THEN Panic
    ELSE Done(point2.time - point1.time)

RECURSIVE calc_track_duration_segment_from(_, _, _)
calc_track_duration_segment_from(points, point_idx, total_duration) ==
    IF point_idx + 1 > Len(points) THEN Done(total_duration)
    ELSE LET next_idx == point_idx + 1
         IN  IF next_idx >= Len(points) + 1 THEN Done(total_duration)
             ELSE LET duration == duration_between_points(points[point_idx],
                                                          points[next_idx])
                  IN  IF duration.panicked THEN Panic
                      ELSE calc_track_duration_segment_from(points, next_idx,
                              total_duration + duration.value)

calc_track_duration_segment(points) ==
    IF Len(points) = 0 THEN Done(0)
    ELSE calc_track_duration_segment_from(points, 1, 0)

RECURSIVE calc_track_duration_from(_, _, _)
calc_track_duration_from(route, k, total_duration) ==
    IF k > Len(route) THEN Done(total_duration)
    ELSE LET d == calc_track_duration_segment(route[k].points)
         IN  IF d.panicked THEN Panic
             ELSE calc_track_duration_from(route, k + 1,
                                           total_duration + d.value)

\* the duration of the route taken as one segment
calc_track_duration_flat(track) ==
    calc_track_duration_segment(AllPoints(track.route))

calc_track_duration(track) == calc_track_duration_from(track.route, 1, 0)

\* the loop over the points of one segment, from point i on (i counts from
\* 1); acc carries sum, total_duration_sec and single_point_segment, and
\* acc.panicked is set by a panic of duration_between_points
RECURSIVE HeartRateSegmentFrom(_, _, _)
HeartRateSegmentFrom(points, i, acc) ==
    IF i > Len(points) THEN acc
    ELSE LET point == points[i]
         IN  IF point.heart_rate = 0
             THEN HeartRateSegmentFrom(points, i + 1, acc)
             ELSE IF i + 1 > Len(points)
             THEN IF acc.single_point_segment
                  THEN [acc EXCEPT !.sum = @ + point.heart_rate,
                                   !.total_duration_sec = @ + 1]
                  ELSE acc
             ELSE LET next_point == points[i + 1]
                      a1 == [acc EXCEPT !.single_point_segment = FALSE]
                      a2 == IF next_point.heart_rate = 0
                            THEN [a1 EXCEPT !.sum = @ + point.heart_rate,
                                            !.total_duration_sec = @ + 1]
                            ELSE a1
                      duration == duration_between_points(point, next_point)
                  IN  IF duration.panicked THEN [a2 EXCEPT !.panicked = TRUE]
                      ELSE IF duration.value = 0
                      THEN HeartRateSegmentFrom(points, i + 1, a2)
                      ELSE HeartRateSegmentFrom(points, i + 1,
                             [a2 EXCEPT
                                !.sum = @ + ((point.heart_rate
                                               + next_point.heart_rate)
                                             * duration.value) \div 2,
                                !.total_duration_sec = @ + duration.value])

RECURSIVE HeartRateFrom(_, _, _)
HeartRateFrom(route, k, acc) ==
    IF k > Len(route) \/ acc.panicked THEN acc
    ELSE HeartRateFrom(route, k + 1,
            HeartRateSegmentFrom(route[k].points, 1,
                [acc EXCEPT !.single_point_segment = TRUE]))

\* the accumulators before the loops
NoHeartRate ==
    [ sum |-> 0, total_duration_sec |-> 0, single_point_segment |-> TRUE,
      panicked |-> FALSE ]

\* the average of the last segment alone
calc_track_average_heart_rate_of_last(track) ==
    LET last == IF track.route = << >> THEN << >>
                ELSE << track.route[Len(track.route)] >>
        acc == HeartRateFrom(last, 1, NoHeartRate)
    IN  IF acc.panicked THEN Panic
        ELSE IF acc.total_duration_sec # 0
        THEN Done((acc.sum \div acc.total_duration_sec) % 256)
        ELSE Done(0)

calc_track_average_heart_rate(track) ==
    LET acc == HeartRateFrom(track.route, 1, NoHeartRate)
    IN  IF acc.panicked THEN Panic
        ELSE IF acc.total_duration_sec # 0
        THEN Done((acc.sum \div acc.total_duration_sec) % 256)
        ELSE Done(0)

METERS_IN_KM == 1000
MIN_SPLIT_THRESHOLD == 100

Split(dist, pace, elevation_delta) ==
    [ distance |-> dist, pace |-> pace, elevation_delta |-> elevation_delta ]

\* the step that seeds nothing into the next split: the part of the pair past
\* the boundary is dropped
SplitStepUnseeded(point, next, acc, overflow_checks) ==
    LET dist == distance_with_elevation(point, next)
        duration == duration_between_points(point, next)
        pending == acc.dist_accumulator + dist
    IN  IF duration.panicked THEN [acc EXCEPT !.panicked = TRUE]
        ELSE IF pending < METERS_IN_KM * Metre
        THEN [acc EXCEPT !.dist_accumulator = pending,
                         !.current_km_duration = @ + duration.value,
                         !.latest_elevation = next.elevation]
        ELSE [acc EXCEPT
                !.splits = Append(@,
                    Split(AsU16(METERS_IN_KM * Metre),
                          acc.current_km_duration + duration.value,
                          AsI32(next.elevation - acc.start_elevation))),
                !.current_km_duration = 0,
                !.dist_accumulator = 0,
                !.start_elevation = next.elevation,
                !.latest_elevation = next.elevation]

\* one turn of the inner loop of calc_track_splits on the points i and i + 1
\* of a segment; acc carries splits, dist_accumulator, current_km_duration,
\* start_elevation and latest_elevation.  extra is the fraction
\* (pending - METERS_IN_KM) / dist; the tracks below keep its products of
\* lengths whole parts of a metre.
\* duration - extra_duration is a subtraction of u64: when extra_duration is
\* the greater it panics in a build with overflow checks, and wraps in a
\* build without them; there the pace is the sum modulo 2^64, and a negative
\* pace stands for that value less 2^64.  A pair of no length met with more
\* than METERS_IN_KM accumulated makes extra infinite: extra_duration is
\* (duration * extra) as u64, 0 for no duration (NaN as u64) and u64::MAX
\* otherwise, and dist_accumulator and start_elevation become NaN, which nan
\* records.  From then on pending is NaN, neither below nor equal to
\* METERS_IN_KM, extra_duration is 0 and every pair pushes a Split, whose
\* elevation_delta is NaN as i32, 0.
SplitStep(point, next, acc, overflow_checks) ==
    LET dist == distance_with_elevation(point, next)
        duration == duration_between_points(point, next)
        a1 == [acc EXCEPT
                 !.start_elevation =
                     IF ~acc.nan /\ acc.dist_accumulator = 0
                     THEN point.elevation ELSE @,
                 !.latest_elevation = next.elevation]
        pending == a1.dist_accumulator + dist
    IN  IF duration.panicked THEN [acc EXCEPT !.panicked = TRUE]
        ELSE IF acc.nan
        THEN [a1 EXCEPT
                !.splits = Append(@,
                    Split(AsU16(METERS_IN_KM * Metre),
                          a1.current_km_duration + duration.value, 0)),
                !.current_km_duration = 0]
        ELSE IF pending < METERS_IN_KM * Metre
        THEN [a1 EXCEPT !.dist_accumulator = pending,
                        !.current_km_duration = @ + duration.value]
        ELSE IF pending = METERS_IN_KM * Metre
        THEN [a1 EXCEPT
                !.splits = Append(@,
                    Split(AsU16(METERS_IN_KM * Metre),
                          a1.current_km_duration + duration.value,
                          AsI32(next.elevation - a1.start_elevation))),
                !.current_km_duration = 0,
                !.dist_accumulator = 0,
                !.start_elevation = next.elevation]
        ELSE IF dist = 0
        THEN IF duration.value = 0
             THEN [a1 EXCEPT
                     !.splits = Append(@,
                         Split(AsU16(METERS_IN_KM * Metre),
                               a1.current_km_duration, 0)),
                     !.current_km_duration = 0,
                     !.dist_accumulator = 0,
                     !.nan = TRUE]
             ELSE IF overflow_checks THEN [acc EXCEPT !.panicked = TRUE]
             ELSE [a1 EXCEPT
                     !.splits = Append(@,
                         Split(AsU16(METERS_IN_KM * Metre),
                               a1.current_km_duration + duration.value + 1,
                               0)),
                     !.current_km_duration = -1,
                     !.dist_accumulator = 0,
                     !.nan = TRUE]
        ELSE LET extra_duration ==
                     (duration.value * (pending - METERS_IN_KM * Metre)) \div dist
                 current_delta == next.elevation - point.elevation
                 extra_elevation ==
                     (current_delta * (pending - METERS_IN_KM * Metre)) \div dist
                 current_end_elevation == point.elevation + extra_elevation
             IN  IF overflow_checks /\ duration.value < extra_duration
                 THEN [acc EXCEPT !.panicked = TRUE]
                 ELSE
                 [a1 EXCEPT
                    !.splits = Append(@,
                        Split(AsU16(METERS_IN_KM * Metre),
                              a1.current_km_duration
                                + (duration.value - extra_duration),
                              AsI32(current_end_elevation
                                      - a1.start_elevation))),
                    !.current_km_duration = extra_duration,
                    !.dist_accumulator = pending - METERS_IN_KM * Metre,
                    !.start_elevation = current_end_elevation]

\* for i in 0..segment.points.len() - 1, from i on (i counts from 1)
RECURSIVE SplitsSegmentFrom(_, _, _, _)
SplitsSegmentFrom(points, i, acc, overflow_checks) ==
    IF i > Len(points) - 1 \/ acc.panicked THEN acc
    ELSE SplitsSegmentFrom(points, i + 1,
                           SplitStep(points[i], points[i + 1], acc,
                                     overflow_checks),
                           overflow_checks)

\* segment.points.len() - 1 on an empty segment: the subtraction overflows,
\* which panics where overflow is checked; where it wraps, the range runs to
\* usize::MAX and segment.points[0] panics
RECURSIVE SplitsFrom(_, _, _, _)
SplitsFrom(route, k, acc, overflow_checks) ==
    IF k > Len(route) \/ acc.panicked THEN acc
    ELSE IF Len(route[k].points) = 0 THEN [acc EXCEPT !.panicked = TRUE]
    ELSE SplitsFrom(route, k + 1,
                    SplitsSegmentFrom(route[k].points, 1, acc,
                                      overflow_checks),
                    overflow_checks)

\* the accumulators before the loops
NoSplits ==
    [ splits |-> << >>, dist_accumulator |-> 0, current_km_duration |-> 0,
      start_elevation |-> 0, latest_elevation |-> 0, nan |-> FALSE,
      panicked |-> FALSE ]

\* the splits with a last Split for any distance left over
calc_track_splits_no_threshold(track, overflow_checks) ==
    LET acc == SplitsFrom(track.route, 1, NoSplits, overflow_checks)
    IN  IF acc.panicked THEN Panic
        ELSE IF ~acc.nan /\ acc.dist_accumulator > 0
                /\ acc.current_km_duration > 0
        THEN Done(Append(acc.splits,
                Split(AsU16(acc.dist_accumulator),
                      (acc.current_km_duration * METERS_IN_KM * Metre)
                          \div acc.dist_accumulator,
                      AsI32(acc.latest_elevation - acc.start_elevation))))
        ELSE Done(acc.splits)

calc_track_splits(track, overflow_checks) ==
    LET acc == SplitsFrom(track.route, 1, NoSplits, overflow_checks)
    IN  IF acc.panicked THEN Panic
        ELSE IF ~acc.nan
                /\ acc.dist_accumulator >= MIN_SPLIT_THRESHOLD * Metre
                /\ acc.current_km_duration > 0
        THEN Done(Append(acc.splits,
                Split(AsU16(acc.dist_accumulator),
                      (acc.current_km_duration * METERS_IN_KM * Metre)
                          \div acc.dist_accumulator,
                      AsI32(acc.latest_elevation - acc.start_elevation))))
        ELSE Done(acc.splits)

\* max_elevation and min_elevation start as None and gain as 0.0, the body of
\* the loop over the segments is empty, and the value returned is
\* ElevationStats {}, which has no field
calc_track_elevation_stats(track) == Done(<< >>)

(***************************************************************************)
(* The statistics of a given Track.                                        *)
(***************************************************************************)
MaxSegments == 2
MaxSegmentPoints == 2

StatsPoints ==
    [ latitude : { 0 }, longitude : { 0, 800 * Metre }, elevation : { 0 },
      time : { 0, 300 }, heart_rate : { 0, 150 }, cadence : { 0 } ]

\* TrackSegment { points }
TrackSegment(points) == [ points |-> points ]

\* the Tracks of at most MaxSegments segments of at most MaxSegmentPoints
\* points of P each
TracksOf(P) ==
    { [ name |-> "", start_time |-> None, route |-> route ] :
        route \in SeqsUpTo({ TrackSegment(points) :
                               points \in SeqsUpTo(P, MaxSegmentPoints) },
                           MaxSegments) }

InitStats ==
    /\ parse = Run("none", Track_new, ParserContext_new(0))
    /\ twin = parse
    /\ stack = << >>
    /\ root_done = FALSE
    /\ appended = << >>
    /\ fresh_seg = FALSE
    /\ input \in TracksOf(StatsPoints)
    /\ output = None

Returns(op, result) ==
    /\ output = None
    /\ output' = Some([ op |-> op, result |-> result ])
    /\ UNCHANGED << input, parser >>

Distance == Returns("distance", calc_track_distance(input))
Duration == Returns("duration", calc_track_duration(input))
AvgHeartRate ==
    Returns("avg_heart_rate", calc_track_average_heart_rate(input))
\* the build has overflow checks or has none
Splits ==
    \E overflow_checks \in BOOLEAN :
        Returns("splits", calc_track_splits(input, overflow_checks))

NextStats == Distance \/ Duration \/ AvgHeartRate \/ Splits
SpecStats == InitStats /\ [][NextStats]_vars

\* the statistics of the Tracks of a given set
InitOn(tracks) ==
    /\ parse = Run("none", Track_new, ParserContext_new(0))
    /\ twin = parse
    /\ stack = << >>
    /\ root_done = FALSE
    /\ appended = << >>
    /\ fresh_seg = FALSE
    /\ input \in tracks
    /\ output = None

\* a point that has a time only
AtTime(time) == [ TrackPoint_new(time) EXCEPT !.time = time ]

\* points that differ in time
DurationPoints == { AtTime(0), AtTime(300), AtTime(700) }

SpecDuration == InitOn(TracksOf(DurationPoints)) /\ [][Duration]_vars

\* a point that has a place only
At(longitude, elevation) ==
    [ TrackPoint_new(0) EXCEPT !.longitude = longitude,
                               !.elevation = elevation ]

\* the corners of a right triangle of 1.5 m along the equator and 2 m of
\* height, whose third side is 2.5 m
DistancePoints == { At(0, 0), At(Metre + 1, 0), At(Metre + 1, 2 * Metre) }

SpecDistance == InitOn(TracksOf(DistancePoints)) /\ [][Distance]_vars

\* a point that has a time and a heart rate only
Beat(time, heart_rate) ==
    [ TrackPoint_new(time) EXCEPT !.time = time, !.heart_rate = heart_rate ]

\* points that all have a heart rate
HeartRatePoints == { Beat(100, 100), Beat(110, 111), Beat(141, 130) }

SpecHeartRate == InitOn(TracksOf(HeartRatePoints)) /\ [][AvgHeartRate]_vars

\* points that have a heart rate or have none
GapPoints == { Beat(0, 100), Beat(0, 0), Beat(10, 100), Beat(10, 0) }

SpecHeartRateGaps == InitOn(TracksOf(GapPoints)) /\ [][AvgHeartRate]_vars

\* a point that has a place on the equator and a time only
Place(longitude, time) ==
    [ TrackPoint_new(time) EXCEPT !.longitude = longitude, !.time = time ]

\* points 1500 m, 2500 m and 4000 m apart
LongPoints ==
    { Place(0, 0), Place(1500 * Metre, 300), Place(4000 * Metre, 800) }

SpecSplitsLong == InitOn(TracksOf(LongPoints)) /\ [][Splits]_vars

TimeOrdered(points) ==
    \A i \in 1..(Len(points) - 1) : points[i].time <= points[i + 1].time

\* every segment has a point and is in time order
Walked(route) ==
    \A k \in 1..Len(route) :
        route[k].points # << >> /\ TimeOrdered(route[k].points)

\* the Tracks of points of P that are in time order
WalksOf(P) == { track \in TracksOf(P) : Walked(track.route) }

\* points 60.5 m, 969.5 m and 1030 m apart, the first two at the same time
ShortPoints ==
    { Place(0, 0), Place(60 * Metre + 1, 0), Place(1030 * Metre, 100) }

SpecSplits == InitOn(WalksOf(ShortPoints)) /\ [][Splits]_vars

\* points with times that go down, the one in the middle with no heart rate
DisorderPoints == { Beat(20, 100), Beat(10, 0), Beat(0, 110) }

NextDisorder == Duration \/ AvgHeartRate \/ Splits
SpecDisorder == InitOn(TracksOf(DisorderPoints)) /\ [][NextDisorder]_vars

\* a point that has a place, an elevation and a time only
Spot(longitude, elevation, time) ==
    [ TrackPoint_new(time) EXCEPT !.longitude = longitude,
                                  !.elevation = elevation, !.time = time ]

\* points of a climb: each 750 m further and 1000 m higher than the one
\* before, 1250 m away from it
ClimbPoints ==
    { Spot(0, 0, 0), Spot(750 * Metre, 1000 * Metre, 100),
      Spot(1500 * Metre, 2000 * Metre, 200) }

SpecSplitsClimb == InitOn(WalksOf(ClimbPoints)) /\ [][Splits]_vars

Elevation == Returns("elevation_stats", calc_track_elevation_stats(input))

\* points at three heights
ElevationPoints == { At(0, 0), At(0, 10 * Metre), At(0, 25 * Metre) }

SpecElevation == InitOn(TracksOf(ElevationPoints)) /\ [][Elevation]_vars

\* the Track of the segments of the points given
TrackOf(segments) ==
    [ Track_new EXCEPT !.route = [ k \in 1..Len(segments) |->
                                     TrackSegment(segments[k]) ] ]

\* the great-circle distance of the two points of the only segment
GreatCircle ==
    LET point1 == input.route[1].points[1]
        point2 == input.route[1].points[2]
    IN  Returns("great_circle",
                Done(distance(point1.latitude, point1.longitude,
                              point2.latitude, point2.longitude)))

\* points of the equator an eighth of a turn from each other, from half a
\* turn west to half a turn east, and points 1 km east of two of them
GlobePoints ==
    { At(k * ((QuarterEquator * Metre) \div 2), 0) : k \in -4..4 }
      \cup { At(1000 * Metre, 0),
             At(QuarterEquator * Metre + 1000 * Metre, 0) }

SpecGreatCircle ==
    InitOn({ TrackOf(<< << point1, point2 >> >>) :
               point1 \in GlobePoints, point2 \in GlobePoints })
      /\ [][GreatCircle]_vars

(***************************************************************************)
(* Properties of the parser.                                               *)
(***************************************************************************)
\* the points in the order they were pushed
AppendedPoints == [ i \in 1..Len(appended) |-> appended[i].point ]

\* the segment of the i-th pushed point: the number of trkseg elements that
\* held a point, up to it
SegmentOf(i) == Cardinality({ k \in 1..i : appended[k].first })

Segments == { SegmentOf(i) : i \in 1..Len(appended) }

\* how often p stands in s at the places of segment k
CountIn(s, p, k) ==
    Cardinality({ i \in 1..Len(s) : s[i] = p /\ SegmentOf(i) = k })

\* how often p stands in s
Count(s, p) == Cardinality({ i \in 1..Len(s) : s[i] = p })

Reverse(s) == [ i \in 1..Len(s) |-> s[Len(s) + 1 - i] ]

Range(s) == { s[i] : i \in 1..Len(s) }

\* the timestamps a document can list
ListedTimes ==
    { Unwrap(ParseRfc3339(text)) : text \in { t \in Texts : ~IsNone(ParseRfc3339(t)) } }

\* C1: when the parse succeeds, the points of each segment of the returned
\* track are in non-decreasing time order, whatever the document listed
\* (points without a time element included).
C1_SegmentsInTimeOrder ==
    parse.result = "Ok" =>
        \A i \in 1..(Len(parse.track.route) - 1) :
            SegmentOf(i) = SegmentOf(i + 1) =>
                parse.track.route[i].time <= parse.track.route[i + 1].time

\* C2: detection and sorting are scoped to one segment: when the parse
\* succeeds, every segment of the returned track holds the points that were
\* recorded in it, none of them moved to another segment.
C2_SortKeepsPointsInTheirSegment ==
    parse.result = "Ok" =>
        \A k \in Segments : \A p \in Range(AppendedPoints) :
            CountIn(parse.track.route, p, k) = CountIn(AppendedPoints, p, k)

\* C3: re-sorting only permutes points: when the parse succeeds the returned
\* points are the pushed points, each as often as it was pushed; a document
\* that lists its points latest first returns them earliest first, which is
\* the sequence the document listing them earliest first returns.
C3_SortPermutes ==
    parse.result = "Ok" =>
        /\ Len(parse.track.route) = Len(appended)
        /\ \A p \in Range(AppendedPoints) \cup Range(parse.track.route) :
              Count(parse.track.route, p) = Count(AppendedPoints, p)
        /\ ( /\ \A i \in 1..Len(appended) :
                  AppendedPoints[i].time \in ListedTimes
             /\ \A i \in 1..(Len(appended) - 1) :
                  AppendedPoints[i].time > AppendedPoints[i + 1].time )
           => parse.track.route = Reverse(AppendedPoints)
        /\ ( /\ \A i \in 1..Len(appended) :
                  AppendedPoints[i].time \in ListedTimes
             /\ \A i \in 1..(Len(appended) - 1) :
                  AppendedPoints[i].time < AppendedPoints[i + 1].time )
           => parse.track.route = AppendedPoints

\* two points listed latest first came back earliest first
C3_Witness ==
    /\ parse.result = "Ok"
    /\ parse.context.should_sort_track
    /\ Len(appended) = 2
    /\ AppendedPoints[1].time \in ListedTimes
    /\ AppendedPoints[2].time \in ListedTimes
    /\ AppendedPoints[1].time > AppendedPoints[2].time
    /\ parse.track.route = Reverse(AppendedPoints)

\* C4: parsing stops at the first error: once a handler or the reader has
\* failed the result is the error, no further event is taken, and no Track
\* is returned.
C4_StopsAtFirstError ==
    parse.result = "Err" => ~ENABLED Next

\* the parse failed with a point already in the route and elements still
\* open
C4_Witness ==
    /\ parse.result = "Err"
    /\ stack # << >>
    /\ Len(parse.track.route) >= 1

\* the step opens an element with the given tag while the parse is running
Opens(tag) ==
    /\ LoopRunning(parse)
    /\ stack' = Append(stack, NameOf(tag))

\* C6: a trkpt element that opens while any of in_gpx, in_track and
\* in_track_segment is false fails the parse, and no point is appended.
C6_TrackPointOutsideSegmentFails ==
    [][ ( /\ Opens("TrackPoint")
          /\ ~ ( /\ parse.context.in_gpx
                 /\ parse.context.in_track
                 /\ parse.context.in_track_segment ) )
        => /\ parse'.result = "Err"
           /\ parse'.track.route = parse.track.route ]_vars

\* a trkpt element with latitude and longitude, inside gpx and trk but
\* outside any trkseg, failed the parse
C6_Witness ==
    /\ parse.result = "Err"
    /\ parse.context.current_tag = Some("TrackPoint")
    /\ stack # << >>
    /\ stack[Len(stack)] = NameOf("TrackPoint")
    /\ parse.context.in_gpx
    /\ parse.context.in_track
    /\ ~parse.context.in_track_segment

\* C7: an ele, hr or cad element that opens while no trkpt element is open
\* fails the parse; so does one that opens between the close of one point
\* and the open of the next.
C7_PointChildOutsidePointFails ==
    [][ \A tag \in { "Elevation", "ExtHeartRate", "ExtCadence" } :
          ( Opens(tag) /\ OpenPoints = 0 ) => parse'.result = "Err" ]_vars

\* the attributes a trkpt element is accepted with, as the claim states
\* them: at least two, a lat and a lon among them, every lat and lon numeric
ValidPointAttributes(attributes) ==
    /\ Len(attributes) >= 2
    /\ \E i \in 1..Len(attributes) : attributes[i].local_name = "lat"
    /\ \E i \in 1..Len(attributes) : attributes[i].local_name = "lon"
    /\ \A i \in 1..Len(attributes) :
          attributes[i].local_name \in { "lat", "lon" }
             => ~IsNone(ParseF64(attributes[i].value))

\* C8: a trkpt element is accepted only with two or more attributes that
\* include a lat and a lon, both of them numeric.
C8_TrackPointNeedsLatLon ==
    [][ ( Opens("TrackPoint") /\ LoopRunning(parse') )
        => \A attributes \in ShapeDocs.attrs :
              parse' = LoopBody(StartEvent(NameOf("TrackPoint"), attributes),
                                parse, parse'.context.current_track_point.time)
                 => ValidPointAttributes(attributes) ]_vars

\* a trkpt element has just been accepted, its latitude and longitude read
C8_Witness ==
    /\ LoopRunning(parse)
    /\ parse.context.current_tag = Some("TrackPoint")
    /\ stack # << >>
    /\ stack[Len(stack)] = NameOf("TrackPoint")
    /\ parse.context.current_track_point.latitude = 7
    /\ parse.context.current_track_point.longitude = 7

\* C5: elements with unrecognized names are transparent: when the document
\* without them parses to a Track, the document with them parses to the same
\* Track, wherever they stand (inside name or time included).
C5_UnrecognizedElementsTransparent ==
    twin.result = "Ok" => ( parse.result = "Ok" /\ parse.track = twin.track )

\* C9: parsing is deterministic: two parses of the same document, both
\* successful, return the same Track, also when the document has points
\* without a time element.
C9_ParsingDeterministic ==
    ( parse.result = "Ok" /\ twin.result = "Ok" ) => parse.track = twin.track

(***************************************************************************)
(* Properties of the statistics.                                           *)
(***************************************************************************)
\* the points of all segments
RECURSIVE NumPoints(_)
NumPoints(route) ==
    IF route = << >> THEN 0
    ELSE Len(route[1].points) + NumPoints(Tail(route))

\* what an operation returns on a Track without points
OfNoPoints(op) == IF op = "splits" THEN Done(<< >>) ELSE Done(0)

\* C10: on a Track with zero points, without segments or with empty segments
\* only, distance, duration and average heart rate return 0 and splits
\* returns the empty sequence, each without a panic.
C10_ZeroPointTrack ==
    ( NumPoints(input.route) = 0 /\ output # None )
        => Unwrap(output).result = OfNoPoints(Unwrap(output).op)

RECURSIVE Sum(_)
Sum(s) == IF s = << >> THEN 0 ELSE Head(s) + Sum(Tail(s))

\* the operation op has returned on input
Returned_(op) == IF output = None THEN FALSE ELSE Unwrap(output).op = op

Result == Unwrap(output).result

\* the differences of the times of the consecutive points of one segment
TimeSteps(points) ==
    [ i \in 1..(Len(points) - 1) |-> points[i + 1].time - points[i].time ]

\* last time minus first time
Span(points) ==
    IF Len(points) <= 1 THEN 0
    ELSE points[Len(points)].time - points[1].time

\* C11: the duration of a Track is the sum over its segments of the
\* differences of consecutive point times: last time minus first time for a
\* segment in time order, nothing for a segment of 0 or 1 points, and nothing
\* for the gap between two segments.
C11_DurationIsSumWithinSegments ==
    Returned_("duration") =>
        /\ ~Result.panicked =>
              Result.value =
                  Sum([ k \in 1..Len(input.route) |->
                          Sum(TimeSteps(input.route[k].points)) ])
        /\ ( \A k \in 1..Len(input.route) : TimeOrdered(input.route[k].points) )
              => /\ ~Result.panicked
                 /\ Result.value =
                      Sum([ k \in 1..Len(input.route) |->
                              Span(input.route[k].points) ])

\* two segments in time order with a gap between them: the duration is that
\* of the first segment
C11_Witness ==
    /\ Returned_("duration")
    /\ Len(input.route) = 2
    /\ Len(input.route[1].points) = 2
    /\ Len(input.route[2].points) = 1
    /\ input.route[1].points[1].time < input.route[1].points[2].time
    /\ input.route[1].points[2].time < input.route[2].points[1].time
    /\ Result = Done(Span(input.route[1].points))

\* the route with the segment k cut in two after its point j
CutAt(route, k, j) ==
    SubSeq(route, 1, k - 1)
      \o << TrackSegment(SubSeq(route[k].points, 1, j)),
            TrackSegment(SubSeq(route[k].points, j + 1,
                                Len(route[k].points))) >>
      \o SubSeq(route, k + 1, Len(route))

\* the elevation-adjusted distances of the consecutive points of one segment
PairDistances(points) ==
    [ i \in 1..(Len(points) - 1) |->
        distance_with_elevation(points[i], points[i + 1]) ]

\* C12: the distance of a Track is the whole metres of the sum, over its
\* segments, of the elevation-adjusted distances of the consecutive points of
\* the segment; the last point of a segment and the first of the next make no
\* pair, so cutting a segment in two never increases the distance, and a sum
\* that is not positive gives 0.
C12_DistanceIsSumWithinSegments ==
    Returned_("distance") =>
        LET total == Sum([ k \in 1..Len(input.route) |->
                             Sum(PairDistances(input.route[k].points)) ])
        IN  /\ Result = Done(IF total > 0 THEN total \div Metre ELSE 0)
            /\ \A k \in 1..Len(input.route) :
                 \A j \in 0..Len(input.route[k].points) :
                    calc_track_distance(
                        [input EXCEPT !.route = CutAt(@, k, j)]).value
                      <= Result.value

\* two segments of 2.5 m each, the second starting away from the end of the
\* first: 5 m
C12_Witness ==
    /\ Returned_("distance")
    /\ Len(input.route) = 2
    /\ PairDistances(input.route[1].points) = << 2 * Metre + 1 >>
    /\ PairDistances(input.route[2].points) = << 2 * Metre + 1 >>
    /\ input.route[1].points[2] # input.route[2].points[1]
    /\ Result = Done(5)

\* what the consecutive points of one segment add to the weighted sum
PairBeats(points) ==
    [ i \in 1..(Len(points) - 1) |->
        ((points[i].heart_rate + points[i + 1].heart_rate)
           * (points[i + 1].time - points[i].time)) \div 2 ]

\* C13: in the average heart rate, two consecutive points of a segment that
\* both have a heart rate add (hr_i + hr_next) * seconds / 2 to the weighted
\* sum and the seconds to the weight, and the totals run over all segments;
\* the segment (t=100, hr=100), (t=110, hr=110) gives 105, and with the
\* segment (t=120, hr=120), (t=130, hr=130) after it 115.
C13_HeartRatePairsAreInterpolated ==
    /\ calc_track_average_heart_rate(
           TrackOf(<< << Beat(100, 100), Beat(110, 110) >> >>)) = Done(105)
    /\ calc_track_average_heart_rate(
           TrackOf(<< << Beat(100, 100), Beat(110, 110) >>,
                      << Beat(120, 120), Beat(130, 130) >> >>)) = Done(115)
    /\ ( /\ Returned_("avg_heart_rate")
         /\ \A k \in 1..Len(input.route) :
               /\ TimeOrdered(input.route[k].points)
               /\ Len(input.route[k].points) # 1
               /\ \A i \in 1..Len(input.route[k].points) :
                     input.route[k].points[i].heart_rate # 0 )
       => LET sum == Sum([ k \in 1..Len(input.route) |->
                             Sum(PairBeats(input.route[k].points)) ])
              weight == Sum([ k \in 1..Len(input.route) |->
                                Sum(TimeSteps(input.route[k].points)) ])
          IN  Result = Done(IF weight = 0 THEN 0 ELSE (sum \div weight) % 256)

\* two segments of two points with heart rates, of different lengths in time
C13_Witness ==
    /\ Returned_("avg_heart_rate")
    /\ input = TrackOf(<< << Beat(100, 100), Beat(110, 111) >>,
                          << Beat(110, 111), Beat(141, 130) >> >>)
    /\ Result = Done((1055 + 3735) \div 41)

\* the heart rates of the points of a route that have one
RECURSIVE Beats(_)
Beats(points) ==
    IF points = << >> THEN << >>
    ELSE IF Head(points).heart_rate = 0 THEN Beats(Tail(points))
    ELSE << Head(points).heart_rate >> \o Beats(Tail(points))

\* every point with a heart rate is followed, in its segment, by one without
LoneBeats(points) ==
    \A i \in 1..Len(points) :
        points[i].heart_rate # 0
          => i < Len(points) /\ points[i + 1].heart_rate = 0

\* C14: in the average heart rate, a point with a heart rate whose successor
\* in the segment has none adds its own heart rate to the weighted sum and
\* one second to the weight, and the interval between the two adds nothing:
\* where every point with a heart rate has such a successor, the average is
\* the mean of the heart rates.
C14_LoneHeartRateCountsOneSecond ==
    ( /\ Returned_("avg_heart_rate")
      /\ \A k \in 1..Len(input.route) :
            /\ TimeOrdered(input.route[k].points)
            /\ LoneBeats(input.route[k].points) )
    => LET beats == Beats(AllPoints(input.route))
       IN  Result = Done(IF beats = << >> THEN 0
                         ELSE (Sum(beats) \div Len(beats)) % 256)

\* C15: every Split that the splits operation returns has a distance of at
\* most 1000 m, and every Split but the last one of exactly 1000 m, on every
\* Track in time order, also where two consecutive points are more than
\* 1000 m or more than 2000 m apart.
C15_SplitsAreAtMostOneKm ==
    ( Returned_("splits") /\ Walked(input.route) /\ ~Result.panicked )
    => \A n \in 1..Len(Result.value) :
          /\ Result.value[n].distance <= 1000
          /\ n < Len(Result.value) => Result.value[n].distance = 1000

\* the Splits are those of splits, then a Split of the distance and the pace
\* given if there is one
EndsWith(value, splits, last) ==
    /\ Len(value) = Len(splits) + Len(last)
    /\ SubSeq(value, 1, Len(splits)) = splits
    /\ last # << >> =>
          /\ value[Len(value)].distance = last[1].distance
          /\ value[Len(value)].pace = last[1].pace

\* the Split of a distance, in parts of a metre, and a duration left over
Leftover(dist, duration) ==
    IF dist >= 100 * Metre /\ duration # 0
    THEN << [ distance |-> dist \div Metre,
              pace |-> (duration * 1000 * Metre) \div dist ] >>
    ELSE << >>

\* C16: after all pairs of points, a last Split is returned if and only if
\* the distance left in the accumulator is at least 100 m and the duration
\* left is not zero; its distance is the distance left, in whole metres, and
\* its pace the duration left * 1000 / the distance left.  On a Track shorter
\* than 1000 m the distance and the duration left are those of the Track.
C16_LastSplitIsTheLeftover ==
    ( Returned_("splits") /\ ~Result.panicked )
    => /\ \E overflow_checks \in BOOLEAN :
            LET acc == SplitsFrom(input.route, 1, NoSplits, overflow_checks)
            IN  /\ ~acc.panicked
                /\ EndsWith(Result.value, acc.splits,
                            IF acc.nan THEN << >>
                            ELSE Leftover(acc.dist_accumulator,
                                          acc.current_km_duration))
       /\ LET total == Sum([ k \in 1..Len(input.route) |->
                               Sum(PairDistances(input.route[k].points)) ])
              duration == Sum([ k \in 1..Len(input.route) |->
                                  Sum(TimeSteps(input.route[k].points)) ])
          IN  total < 1000 * Metre
                => EndsWith(Result.value, << >>, Leftover(total, duration))

\* a Split of 1000 m and a last Split of 999 m for the 999.5 m left
C16_Witness ==
    /\ Returned_("splits")
    /\ ~Result.panicked
    /\ Len(Result.value) = 2
    /\ Result.value[2].distance = 999
    /\ SplitsFrom(input.route, 1, NoSplits, TRUE).dist_accumulator
         = 999 * Metre + 1

\* what the consecutive points of one segment add to the gain
Climbs(points) ==
    [ i \in 1..(Len(points) - 1) |->
        IF points[i + 1].elevation > points[i].elevation
        THEN points[i + 1].elevation - points[i].elevation
        ELSE 0 ]

\* C17: the elevation statistics give as gain the sum, over the consecutive
\* points of each segment, of max(0, next elevation - elevation): a descent
\* adds nothing, and neither does the step from the last point of a segment
\* to the first of the next.
C17_GainIsSumOfClimbs ==
    Returned_("elevation_stats") =>
        /\ ~Result.panicked
        /\ "gain" \in DOMAIN Result.value
        /\ Result.value.gain =
              Sum([ k \in 1..Len(input.route) |->
                      Sum(Climbs(input.route[k].points)) ])

Elevations(route) ==
    { AllPoints(route)[i].elevation : i \in 1..Len(AllPoints(route)) }

\* C18: the elevation statistics give the greatest and the least elevation of
\* all points of all segments, and for a Track without points no greatest and
\* no least elevation and a gain of zero.
C18_MaxAndMinElevation ==
    Returned_("elevation_stats") =>
        /\ ~Result.panicked
        /\ { "max_elevation", "min_elevation", "gain" }
              \subseteq DOMAIN Result.value
        /\ IF AllPoints(input.route) = << >>
           THEN /\ Result.value.max_elevation = None
                /\ Result.value.min_elevation = None
                /\ Result.value.gain = 0
           ELSE /\ Result.value.max_elevation =
                      Some(CHOOSE e \in Elevations(input.route) :
                             \A f \in Elevations(input.route) : f <= e)
                /\ Result.value.min_elevation =
                      Some(CHOOSE e \in Elevations(input.route) :
                             \A f \in Elevations(input.route) : e <= f)

\* C19: the great-circle distance is the same in both directions, is 0 from
\* a point to itself, and is never negative, also for two points more than a
\* quarter of the globe apart.
C19_DistanceSymmetricAndNotNegative ==
    Returned_("great_circle") =>
        LET point1 == input.route[1].points[1]
            point2 == input.route[1].points[2]
        IN  /\ Result.value = distance(point2.latitude, point2.longitude,
                                       point1.latitude, point1.longitude)
            /\ point1 = point2 => Result.value = 0
            /\ Result.value >= 0

\* C20: when the input cannot be opened or cannot be read, read_gpx returns
\* an error value to its caller and does not abort the process.
C20_UnreadableInputIsAnError ==
    [][ /\ FileOpenFails => parse'.result = "Err"
        /\ (LoopRunning(parse) /\ ReaderError(ShapeDocs))
              => parse'.result = "Err" ]_vars

\* an element with the given tag is open
IsOpen(tag) == \E i \in 1..Len(stack) : parse_gpx_xml_tag(stack[i]) = Some(tag)

\* C21: while a well-nested document of recognized elements is read, each of
\* in_gpx, in_metadata, in_track, in_track_segment and in_track_point is true
\* exactly when an element of its kind has been opened and not yet closed;
\* closing a trkpt element clears in_track_point.
C21_FlagsFollowOpenElements ==
    LoopRunning(parse) =>
        /\ parse.context.in_gpx = IsOpen("Gpx")
        /\ parse.context.in_metadata = IsOpen("Metadata")
        /\ parse.context.in_track = IsOpen("Track")
        /\ parse.context.in_track_segment = IsOpen("TrackSegment")
        /\ parse.context.in_track_point = IsOpen("TrackPoint")

\* the step closes an element with the given tag while the parse is running
Closes(tag) ==
    /\ LoopRunning(parse)
    /\ stack # << >>
    /\ stack' = SubSeq(stack, 1, Len(stack) - 1)
    /\ parse_gpx_xml_tag(stack[Len(stack)]) = Some(tag)

\* C22: the Track has one TrackSegment for each trkseg element of the
\* document, in document order, with the points that closed while it was
\* open: closing a trkseg element adds exactly one element to the route, and
\* closing a trkpt element adds none.
C22_OneSegmentPerSegmentElement ==
    [][ /\ Closes("TrackSegment")
            => Len(parse'.track.route) = Len(parse.track.route) + 1
        /\ Closes("TrackPoint")
            => Len(parse'.track.route) = Len(parse.track.route) ]_vars

\* C23: when two points overshoot the 1000 m boundary, the elevation at the
\* boundary is the elevation of the first point plus f times the change of
\* elevation of the pair, f = (1000 - accumulated distance) / pair distance;
\* the elevation_delta of the Split is the elevation at the boundary minus
\* the elevation at the start of the split, and the next split starts at the
\* elevation at the boundary.  Here for the first two points of a Track and
\* the Splits they give.
C23_BoundaryElevationInterpolated ==
    ( /\ Returned_("splits")
      /\ ~Result.panicked
      /\ Walked(input.route)
      /\ input.route # << >> )
    => LET points == input.route[1].points
       IN  ( /\ Len(points) >= 2
             /\ distance_with_elevation(points[1], points[2])
                  > 1000 * Metre )
           => LET dist == distance_with_elevation(points[1], points[2])
                  boundary ==
                      points[1].elevation
                        + ((1000 * Metre)
                             * (points[2].elevation - points[1].elevation))
                          \div dist
              IN  /\ Result.value[1].elevation_delta
                        = Trunc(boundary - points[1].elevation)
                  /\ ( /\ Len(input.route) = 1
                       /\ Len(points) = 2
                       /\ Len(Result.value) = 2 )
                     => Result.value[2].elevation_delta
                           = Trunc(points[2].elevation - boundary)

\* the sequences of a sequence, one after the other
RECURSIVE Flat(_)
Flat(seqs) == IF seqs = << >> THEN << >> ELSE Head(seqs) \o Flat(Tail(seqs))

\* the distances of all pairs of consecutive points of a route, in order
AllPairDistances(route) ==
    Flat([ k \in 1..Len(route) |-> PairDistances(route[k].points) ])

\* no pair of the route goes a full kilometre past the boundary of the
\* kilometre it starts in
NeverAFullKm(route) ==
    LET dists == AllPairDistances(route)
    IN  \A n \in 1..Len(dists) :
           (Sum(SubSeq(dists, 1, n - 1)) % (1000 * Metre)) + dists[n]
              < 2000 * Metre

\* the accumulators after the first j points of the segment k of the route
AccAt(route, k, j, overflow_checks) ==
    SplitsSegmentFrom(SubSeq(route[k].points, 1, j), 1,
                      SplitsFrom(SubSeq(route, 1, k - 1), 1, NoSplits,
                                 overflow_checks),
                      overflow_checks)

\* C24: splits conserve time and distance.  When two points overshoot the
\* boundary, the seconds added to the pace of the Split pushed and the
\* seconds that current_km_duration starts the next split with are together
\* the duration of the pair, and dist_accumulator starts the next split with
\* the accumulated distance plus the distance of the pair less 1000 m.  So on
\* a Track in time order no pair of which overshoots by a full kilometre, the
\* paces of the Splits of 1000 m and the duration left sum to the durations
\* of all pairs, and 1000 m times the number of those Splits plus the
\* distance left is the distance of all pairs.
C24_SplitsConserveTimeAndDistance ==
    ( /\ Returned_("splits")
      /\ Walked(input.route)
      /\ NeverAFullKm(input.route) )
    => \A overflow_checks \in BOOLEAN :
          LET acc == SplitsFrom(input.route, 1, NoSplits, overflow_checks)
          IN  /\ ~acc.panicked
              /\ ~Result.panicked
              /\ SubSeq(Result.value, 1, Len(acc.splits)) = acc.splits
              /\ \A k \in 1..Len(input.route) :
                   \A j \in 1..(Len(input.route[k].points) - 1) :
                      LET points == input.route[k].points
                          before == AccAt(input.route, k, j, overflow_checks)
                          after == AccAt(input.route, k, j + 1,
                                         overflow_checks)
                          dist == distance_with_elevation(points[j],
                                                          points[j + 1])
                      IN  before.dist_accumulator + dist > 1000 * Metre
                            => /\ Len(after.splits) = Len(before.splits) + 1
                               /\ ( after.splits[Len(after.splits)].pace
                                      - before.current_km_duration )
                                    + after.current_km_duration
                                    = points[j + 1].time - points[j].time
                               /\ after.dist_accumulator
                                    = before.dist_accumulator + dist
                                        - 1000 * Metre
              /\ Sum([ n \in 1..Len(acc.splits) |-> acc.splits[n].pace ])
                    + acc.current_km_duration
                    = Sum([ k \in 1..Len(input.route) |->
                              Sum(TimeSteps(input.route[k].points)) ])
              /\ 1000 * Metre * Len(acc.splits) + acc.dist_accumulator
                    = Sum([ k \in 1..Len(input.route) |->
                              Sum(PairDistances(input.route[k].points)) ])

\* two pairs of 1030 m and 100 s: Splits with paces 98 and 97, and 5 s and
\* 60 m left
C24_Witness ==
    /\ Returned_("splits")
    /\ Walked(input.route)
    /\ NeverAFullKm(input.route)
    /\ Len(Result.value) = 2
    /\ Result.value[1].pace = 98
    /\ Result.value[2].pace = 97
    /\ SplitsFrom(input.route, 1, NoSplits, TRUE).current_km_duration = 5
    /\ SplitsFrom(input.route, 1, NoSplits, TRUE).dist_accumulator
         = 60 * Metre

\* C25: the splits operation is total on every Track whose segments are in
\* time order, whatever the distances and durations of its pairs of points,
\* pairs longer than 2000 m, pairs of no length and segments of one point
\* included: it returns a sequence of Splits, without an underflow, a division
\* by zero or an index out of range; after each pair the accumulated distance
\* is below 1000 m, and the seconds seeded past a boundary are at most the
\* duration of the pair.
C25_SplitsAreTotal ==
    ( Returned_("splits") /\ Walked(input.route) )
    => /\ ~Result.panicked
       /\ \A overflow_checks \in BOOLEAN :
            \A k \in 1..Len(input.route) :
               \A j \in 1..Len(input.route[k].points) :
                  LET points == input.route[k].points
                      after == AccAt(input.route, k, j, overflow_checks)
                  IN  /\ ~after.panicked
                      /\ ~after.nan
                      /\ after.dist_accumulator < 1000 * Metre
                      /\ j > 1 =>
                           after.current_km_duration
                             <= AccAt(input.route, k, j - 1,
                                      overflow_checks).current_km_duration
                                  + (points[j].time - points[j - 1].time)

\* the pairs of consecutive points of a segment of which the second is the
\* earlier, as << segment, index of the first point >>
DecreasingPairs(route) ==
    { kj \in UNION { { << k, j >> : j \in 1..(Len(route[k].points) - 1) } :
                       k \in 1..Len(route) } :
        route[kj[1]].points[kj[2] + 1].time < route[kj[1]].points[kj[2]].time }

\* one of duration, avg_heart_rate and splits has returned
TimedReturned ==
    Returned_("duration") \/ Returned_("avg_heart_rate") \/ Returned_("splits")

\* C26: if two consecutive points of a segment have decreasing time, the
\* duration and the splits operations fail on the negative difference, and
\* the average heart rate fails unless the first point of every such pair has
\* heart rate 0: such a point is skipped before the difference is taken, and
\* no value is computed from the pair.
C26_DecreasingTimeFails ==
    /\ ( Returned_("duration") \/ Returned_("splits") )
          => ( DecreasingPairs(input.route) # {} => Result.panicked )
    /\ Returned_("avg_heart_rate")
          => ( ( \E kj \in DecreasingPairs(input.route) :
                    input.route[kj[1]].points[kj[2]].heart_rate # 0 )
               => Result.panicked )

\* C26 as stated: if two consecutive points of a segment have decreasing
\* time, each of duration, avg_heart_rate and splits fails on the negative
\* difference.
C26_EveryOperationFails ==
    ( TimedReturned /\ DecreasingPairs(input.route) # {} ) => Result.panicked

\* the average heart rate fails on two points with heart rates that go back
\* in time
C26_Witness ==
    /\ Returned_("avg_heart_rate")
    /\ input.route = << TrackSegment(<< Beat(20, 100), Beat(0, 110) >>) >>
    /\ DecreasingPairs(input.route) = { << 1, 1 >> }
    /\ Result.panicked

\* the heart rate of the last point of a segment, as a sequence of one, or of
\* none for a segment of no point
LastBeat(points) ==
    IF points = << >> THEN << >> ELSE << points[Len(points)].heart_rate >>

\* C27: in the average heart rate, the last point of every segment that has
\* a heart rate adds its own heart rate to the weighted sum and one second to
\* the weight, whatever the number of points of the segment and the heart
\* rates of the points before it: where every point has a heart rate, the
\* weighted sum is that of the pairs plus the heart rates of the last points,
\* and the weight the seconds of the pairs plus one for each last point.
C27_LastPointCountsOneSecond ==
    ( /\ Returned_("avg_heart_rate")
      /\ \A k \in 1..Len(input.route) :
            /\ TimeOrdered(input.route[k].points)
            /\ \A i \in 1..Len(input.route[k].points) :
                  input.route[k].points[i].heart_rate # 0 )
    => LET sum == Sum([ k \in 1..Len(input.route) |->
                          Sum(PairBeats(input.route[k].points))
                            + Sum(LastBeat(input.route[k].points)) ])
           weight == Sum([ k \in 1..Len(input.route) |->
                             Sum(TimeSteps(input.route[k].points))
                               + Len(LastBeat(input.route[k].points)) ])
       IN  Result = Done(IF weight = 0 THEN 0 ELSE (sum \div weight) % 256)

\* C28: the average heart rate of a Track in time order is 0 when no point
\* has a heart rate, and otherwise lies between the smallest and the largest
\* of the heart rates that are not 0, so that the quotient fits 0..255 with
\* nothing cut off; the points with heart rate 0 never pull it below the
\* smallest heart rate that is not 0.
C28_AverageHeartRateIsWithinSamples ==
    ( /\ Returned_("avg_heart_rate")
      /\ \A k \in 1..Len(input.route) : TimeOrdered(input.route[k].points) )
    => LET beats == Range(Beats(AllPoints(input.route)))
           acc == HeartRateFrom(input.route, 1, NoHeartRate)
       IN  /\ ~Result.panicked
           /\ beats = {} => Result.value = 0
           /\ beats # {} =>
                /\ \E low \in beats : low <= Result.value
                /\ \E high \in beats : Result.value <= high
                /\ \A low \in beats :
                      ( \A beat \in beats : low <= beat )
                         => low <= Result.value
                /\ acc.total_duration_sec # 0
                /\ acc.sum \div acc.total_duration_sec = Result.value

\* the reader is in a time element, just opened, of a document being parsed
TimeOpen ==
    /\ LoopRunning(parse)
    /\ stack # << >>
    /\ parse_gpx_xml_tag(stack[Len(stack)]) = Some("Time")
    /\ parse.context.current_tag = Some("Time")

\* the texts that are timestamps
TimeTexts == { characters \in Texts : ParseRfc3339(characters) # None }

\* C29: the text of a time element is routed by the elements that are open.
\* In a metadata element it sets the start_time of the Track and nothing
\* else, no point; in a trkpt element, with no metadata element open, it sets
\* the time of the point being read, and leaves the Track, its start_time
\* included, as it is; in neither it changes nothing.
C29_TimeTextIsRoutedByContext ==
    TimeOpen =>
      \A characters \in TimeTexts :
         LET r == parse_xml_characters(characters, parse.track, parse.context)
             time == ParseRfc3339(characters)
         IN  /\ r.ok
             /\ IsOpen("Metadata") =>
                   /\ r.track = [parse.track EXCEPT !.start_time = time]
                   /\ r.context = parse.context
             /\ ( ~IsOpen("Metadata") /\ IsOpen("TrackPoint") ) =>
                   /\ r.track = parse.track
                   /\ r.context.current_track_point =
                         [parse.context.current_track_point
                            EXCEPT !.time = Unwrap(time)]
                   /\ [r.context EXCEPT
                         !.current_track_point =
                             parse.context.current_track_point,
                         !.should_sort_track =
                             parse.context.should_sort_track]
                        = parse.context
             /\ ( ~IsOpen("Metadata") /\ ~IsOpen("TrackPoint") ) =>
                   /\ r.track = parse.track
                   /\ r.context = parse.context

\* the point of a trkpt element with lat and lon attributes, just opened
FreshPoint(attributes, now) ==
    [ TrackPoint_new(now) EXCEPT
        !.latitude = Unwrap(ParseF64(attributes[1].value)),
        !.longitude = Unwrap(ParseF64(attributes[2].value)) ]

\* opening a trkpt element, wherever the parse stands, leaves as the point
\* being read a new point with the latitude and longitude of the element
OpeningResets ==
    LoopRunning(parse) =>
       \A attributes \in PointDocs.attrs : \A now \in ClockReadings :
          LET r == parse_start_xml_element("TrackPoint", attributes,
                                           parse.track, parse.context, now)
          IN  r.ok => r.context.current_track_point
                         = FreshPoint(attributes, now)

\* the handler goes on after the step
StillRunning == LoopRunning(parse) /\ LoopRunning(parse')

\* closing a trkpt element appends the point being read, no other event
\* appends; a trkpt element closed with no element read in it appends a
\* point with elevation 0, heart rate 0 and cadence 0
ClosingAppends ==
    /\ Closes("TrackPoint")
          => parse'.track.route
                = Append(parse.track.route, parse.context.current_track_point)
    /\ ( StillRunning /\ ~Closes("TrackPoint") )
          => parse'.track.route = parse.track.route
    /\ ( Closes("TrackPoint")
         /\ parse.context.current_tag = Some("TrackPoint") )
          => LET point == parse'.track.route[Len(parse'.track.route)]
             IN  /\ point.elevation = 0
                 /\ point.heart_rate = 0
                 /\ point.cadence = 0

\* the latitude and longitude of the point being read stay as they are
SamePlace ==
    /\ parse'.context.current_track_point.latitude
          = parse.context.current_track_point.latitude
    /\ parse'.context.current_track_point.longitude
          = parse.context.current_track_point.longitude

\* C30: each appended point carries the data of its own element only.
\* Opening a trkpt element resets the point being read, so that a point with
\* no ele, hr or cad element has elevation 0, heart rate 0 and cadence 0
\* whatever the points before it contained; one point is appended for each
\* trkpt element closed; and the appended point has the latitude and
\* longitude of the open tag of its element, as long as no other trkpt
\* element opens in that element: from the open tag to the close, no other
\* step changes them.
C30_PointsCarryTheirOwnData ==
    /\ []OpeningResets
    /\ [][ClosingAppends]_vars
    /\ [][ ( StillRunning /\ IsOpen("TrackPoint") /\ ~Opens("TrackPoint") )
             => SamePlace ]_vars

\* C30 as stated: the same for every trkpt element, those with a trkpt
\* element in them included: from the open tag of a trkpt element to its
\* close, no step changes the latitude and longitude of the point being read.
C30_EveryPointHasItsOwnPlace ==
    /\ []OpeningResets
    /\ [][ClosingAppends]_vars
    /\ [][ ( StillRunning /\ IsOpen("TrackPoint") ) => SamePlace ]_vars

\* a point with an elevation and a heart rate, then a point at another place
\* with no element in it
C30_Witness ==
    /\ LoopRunning(parse)
    /\ Len(parse.track.route) = 2
    /\ Len(appended) = 2
    /\ parse.track.route[1] =
          [ FreshPoint(LatLon("7", "300"), parse.track.route[1].time)
              EXCEPT !.elevation = 7, !.heart_rate = 7 ]
    /\ parse.track.route[2] =
          FreshPoint(LatLon("300", "7"), parse.track.route[2].time)

\* the sequence small can be had from the sequence big by leaving elements out
RECURSIVE IsSubSeq(_, _)
IsSubSeq(small, big) ==
    IF small = << >> THEN TRUE
    ELSE IF big = << >> THEN FALSE
    ELSE IF Head(small) = Head(big) THEN IsSubSeq(Tail(small), Tail(big))
    ELSE IsSubSeq(small, Tail(big))

\* the pushed points of segment k that have the given time, in the order they
\* were pushed
RECURSIVE PushedAt(_, _, _)
PushedAt(i, k, time) ==
    IF i > Len(appended) THEN << >>
    ELSE IF SegmentOf(i) = k /\ appended[i].point.time = time
    THEN << appended[i].point >> \o PushedAt(i + 1, k, time)
    ELSE PushedAt(i + 1, k, time)

\* no point of segment k was pushed with a time earlier than that of the
\* point pushed before it in the segment
PushedInOrder(k) ==
    \A i \in 2..Len(appended) :
        ( SegmentOf(i) = k /\ SegmentOf(i - 1) = k )
           => appended[i - 1].point.time <= appended[i].point.time

\* C31: the sort is stable and conditional: when the parse succeeds, the
\* points of one segment that have the same time stand in the returned Track
\* in the order the document lists them, and a segment in which no point has
\* a time earlier than the point pushed before it is returned as the document
\* lists it, every point of it at the place it was pushed to.
C31_SortIsStableAndConditional ==
    parse.result = "Ok" =>
        /\ \A k \in Segments : \A i \in 1..Len(appended) :
              IsSubSeq(PushedAt(1, k, appended[i].point.time),
                       parse.track.route)
        /\ \A k \in Segments :
              PushedInOrder(k) =>
                 \A i \in 1..Len(appended) :
                    SegmentOf(i) = k
                       => parse.track.route[i] = AppendedPoints[i]

\* the flags of a ParserContext: every field but current_tag and
\* current_track_point
Flags(context) ==
    << context.in_gpx, context.in_metadata, context.in_track,
       context.in_track_segment, context.in_track_point,
       context.should_sort_track >>

\* the tag of the element a step opens while the loop of parse is running, if
\* the step opens an element of a recognized name
Opened ==
    IF LoopRunning(parse) /\ Len(stack') = Len(stack) + 1
    THEN parse_gpx_xml_tag(stack'[Len(stack')])
    ELSE None

\* C32: opening metadata or time fails exactly when in_gpx does not hold,
\* opening name fails exactly when in_gpx and in_track do not both hold, and
\* opening gpx, trk or trkseg fails in no state of the parser; the event that
\* fails leaves every flag of the context and every field of the Track as
\* they were.
C32_ContainmentOfNonPointTags ==
    [][ LET context == parse.context
        IN  /\ Opened \in { Some("Metadata"), Some("Time") }
               => ( parse'.result = "Err" <=> ~context.in_gpx )
            /\ Opened = Some("Name")
               => ( parse'.result = "Err"
                       <=> ~( context.in_gpx /\ context.in_track ) )
            /\ Opened \in { Some("Gpx"), Some("Track"), Some("TrackSegment") }
               => parse'.result = "none"
            /\ ( Opened \in { Some("Metadata"), Some("Time"), Some("Name") }
                 /\ parse'.result = "Err" )
               => /\ Flags(parse'.context) = Flags(context)
                  /\ parse'.track = parse.track
      ]_vars

\* a name element opened in the gpx element and outside every trk element has
\* made the parse fail
C32_Witness ==
    /\ parse.result = "Err"
    /\ stack # << >>
    /\ parse_gpx_xml_tag(stack[Len(stack)]) = Some("Name")
    /\ parse.context.current_tag = Some("Name")
    /\ parse.context.in_gpx
    /\ ~parse.context.in_track

\* the text is none of the strings the element of the tag has as its text: a
\* decimal number for ele, a decimal integer in 0..255 for hr and cad, an
\* RFC 3339 timestamp for time
Undecodable(tag, text) ==
    CASE tag = "Elevation" -> text \notin { "7", "300" }
      [] tag \in { "ExtHeartRate", "ExtCadence" } -> text \notin { "7" }
      [] tag = "Time" ->
            text \notin { "2020-04-22T16:01:58Z", "2020-04-22T16:02:04Z" }
      [] OTHER -> FALSE

\* the step hands text to parse while its loop is running
TextStep ==
    /\ LoopRunning(parse)
    /\ stack' = stack
    /\ parse'.result # "Ok"

\* C33: in every state the loop can be in, text handed over while current_tag
\* is None is accepted and changes neither the Track nor the context, and text
\* that is not a decimal number for ele, not a decimal integer in 0..255 for
\* hr or cad, or not a timestamp for time is answered with Err and nothing is
\* stored; no text fails in any other way, and each text step of a parse does
\* as much.
C33_TextIsDecodedOrFails ==
    /\ [] ( LoopRunning(parse) =>
              \A text \in DecodeDocs.texts :
                 LET r == parse_xml_characters(text, parse.track,
                                               parse.context)
                     current_tag == parse.context.current_tag
                 IN  /\ IsNone(current_tag)
                        => r = Ok(parse.track, parse.context)
                     /\ ~IsNone(current_tag)
                        => ( Undecodable(Unwrap(current_tag), text)
                                <=> ~r.ok )
                     /\ ~r.ok => ( r.track = parse.track
                                   /\ r.context = parse.context ) )
    /\ [][ TextStep =>
              /\ IsNone(parse.context.current_tag) => parse' = parse
              /\ parse'.result = "Err"
                 => /\ parse.context.current_tag \in
                          { Some("Elevation"), Some("ExtHeartRate"),
                            Some("ExtCadence"), Some("Time") }
                    /\ parse'.track = parse.track
                    /\ parse'.context = parse.context
         ]_vars

\* text in the hr element of a point has made the parse fail, and the point
\* being read has the heart rate it was constructed with
C33_Witness ==
    /\ parse.result = "Err"
    /\ stack # << >>
    /\ parse_gpx_xml_tag(stack[Len(stack)]) = Some("ExtHeartRate")
    /\ parse.context.current_tag = Some("ExtHeartRate")
    /\ parse.context.current_track_point.heart_rate = 0
    /\ parse.context.current_track_point.elevation = 300

====
